---- MODULE Spec2Model ----
(***************************************************************************)
(* Model of the ESP32 Autonomous Sentinel firmware: the wake dispatcher     *)
(* (app_main), the trigger pipeline (handlePirTrigger), the SleepManager    *)
(* cooldown store / wake arbiter, and the camera, SD card and WiFi drivers  *)
(* as far as the pipeline drives them.                                      *)
(*                                                                         *)
(* Time: esp_timer_get_time() counts from the boot of the current process; *)
(* a wake from deep sleep is a fresh boot, so the counter restarts.  The    *)
(* counter is kept in sub-second ticks (US_PER_SEC ticks per second) so     *)
(* that getCurrentTimeSec really floors.                                    *)
(***************************************************************************)
EXTENDS Integers, Sequences, FiniteSets, TLC

\* ---------------------------------------------------------------- bounds
\* ticks of the esp_timer per second (stands for the 1000000 of the source)
US_PER_SEC == 2
\* largest esp_timer value a process lifetime reaches
MaxTicks == 6
\* config::timing::COOLDOWN_SECONDS, scaled down from 3600
COOLDOWN_SECONDS == 2
\* config::pir::WARMUP_MS, scaled down from 3000 ms to whole seconds
PIR_WARMUP_SEC == 1
\* config::timing::CAMERA_WARMUP_FRAMES, scaled down from 25
CAMERA_WARMUP_FRAMES == 2
\* config::timing::CAMERA_MIN_VALID_FRAMES, scaled down from 20
CAMERA_MIN_VALID_FRAMES == 1
\* config::camera::MIN_FRAME_SIZE, scaled down from 1024
MIN_FRAME_SIZE == 2
\* largest persisted timestamp / duration the API harness draws
MaxAllow == 4
MaxDur == 3
MaxDrvCalls == 2
MaxWifiEvents == 2

\* ------------------------------------------------------ program constants
\* config::detection::MIN_CONFIDENCE (0.5f), in percent
MIN_CONFIDENCE == 50

Max(a, b) == IF a > b THEN a ELSE b
Min(a, b) == IF a < b THEN a ELSE b

\* frame lengths a sensor read can deliver; 0 stands for a null buffer
FrameLens == {0, MIN_FRAME_SIZE - 1, MIN_FRAME_SIZE, MIN_FRAME_SIZE + 1}

\* detection scores in percent
ConfValues == {0, MIN_CONFIDENCE - 1, MIN_CONFIDENCE, 100}

VARIABLES
    s_nextPirAllowTime, \* RTC_DATA_ATTR timestamp, survives deep sleep
    espTimer,           \* esp_timer_get_time(), in ticks since boot
    pc,                 \* position of the (single) thread of control
    wakeCause,          \* esp_sleep_get_wakeup_cause() of this boot
    m_wakeReason,       \* SleepManager::m_wakeReason
    armedTimer,         \* esp_sleep_enable_timer_wakeup was called
    armedExt1,          \* esp_sleep_enable_ext1_wakeup was called
    sleepDuration,      \* local of enterDeepSleep (-1 until set)
    edsCooling,         \* what isInCooldown() returned inside enterDeepSleep
    edsNow,             \* the clock value (s) that call read
    edsReads,           \* every clock value (s) enterDeepSleep has read
    sleepNow,           \* clock value (s) when esp_deep_sleep_start was called
    sdCard,             \* SdCardDriver: m_card # nullptr, and the counts of
                        \* successful mounts (acq) and unmounts (rel)
    camera,             \* CameraDriver: m_initialized, and the counts of
                        \* esp_camera_init successes / esp_camera_deinit calls
    fb,                 \* frame: length of the frame the pipeline holds
                        \* (0 = nullptr); buffers got from / returned to
                        \* esp_camera_fb_get / esp_camera_fb_return
    warmupI,            \* loop index of CameraDriver::warmup
    validFrames,        \* local of CameraDriver::warmup
    result,             \* DetectionResult
    wifi,               \* WifiManager fields
    startCalls,         \* startCooldown calls in this process lifetime
    path,               \* exit path the pipeline took
    notify,             \* outcome of the notification attempt
    allowAtWake,        \* s_nextPirAllowTime when this process started
    api,                \* record of the last SleepManager call of the harness
    recheck,            \* what the cooldown re-check of handlePirTrigger saw
    hist,               \* real time since the last notification attempt
    hwLog,              \* driver acquisitions and releases, in call order
    net,                \* the WiFi station and what connect() returned
    tg,                 \* record of the last TelegramClient::sendDocument call
    drv                 \* record of the last Detector::detect call, or of
                        \* the last CameraDriver call of the harness

wakeVars == << wakeCause, m_wakeReason >>
armVars  == << armedTimer, armedExt1, sleepDuration, edsCooling, edsNow,
               edsReads, sleepNow >>
hwVars   == << sdCard, camera, fb, hwLog >>
netVars  == << net, tg >>
warmVars == << warmupI, validFrames >>
runVars  == << result, wifi, startCalls, path, notify >>

vars == << s_nextPirAllowTime, espTimer, pc, wakeVars, armVars, hwVars,
           warmVars, runVars, allowAtWake, api, drv, recheck, hist, netVars >>

\* ------------------------------------------------------------ SleepManager

getCurrentTimeSec == espTimer \div US_PER_SEC

\* faulty variant: the comparison made inclusive
InCooldownAt_Inclusive(allowed, now) == allowed >= now

InCooldownAt(allowed, now) == allowed > now

\* faulty variant: cooling whenever a timestamp is stored
isInCooldown_AnyTimestamp == s_nextPirAllowTime > 0

isInCooldown == InCooldownAt(s_nextPirAllowTime, getCurrentTimeSec)

RemainingAt(allowed, now) ==
    LET remaining == allowed - now
    IN  IF remaining > 0 THEN remaining ELSE 0

getCooldownRemaining == RemainingAt(s_nextPirAllowTime, getCurrentTimeSec)

\* faulty variant: a new cooldown extends the one still running
startCooldown_Extends(seconds) ==
    s_nextPirAllowTime' =
        (IF s_nextPirAllowTime > espTimer \div US_PER_SEC
            THEN s_nextPirAllowTime
            ELSE espTimer \div US_PER_SEC) + seconds

startCooldown(seconds) ==
    s_nextPirAllowTime' = getCurrentTimeSec + seconds

\* values of esp_sleep_wakeup_cause_t that the constructor's switch leaves
\* to its default branch
OtherCauses == {"EXT0", "TOUCHPAD", "GPIO"}

\* faulty variant: the default branch classifies as a cold start
WakeReasonOf_DefaultPowerOn(cause) ==
    CASE cause = "UNDEFINED" -> "POWER_ON"
      [] cause = "EXT1"      -> "PIR_TRIGGER"
      [] cause = "TIMER"     -> "TIMER"
      [] OTHER               -> "POWER_ON"

WakeReasonOf(cause) ==
    CASE cause = "UNDEFINED" -> "POWER_ON"
      [] cause = "EXT1"      -> "PIR_TRIGGER"
      [] cause = "TIMER"     -> "TIMER"
      [] OTHER               -> "UNKNOWN"

NoWifi == [m_eventGroup |-> FALSE, handlers |-> FALSE, ipHandler |-> FALSE,
           driver |-> FALSE, m_initialized |-> FALSE, connectedBit |-> FALSE]

\* SdCardDriver(), CameraDriver() and a null frame pointer
NoSdCard == [m_card |-> FALSE, acq |-> 0, rel |-> 0]
NoCamera == [m_initialized |-> FALSE, acq |-> 0, rel |-> 0]
NoFrame == [frame |-> 0, acq |-> 0, rel |-> 0]

NoResult == [detected |-> FALSE, confidence |-> 0]

\* Real time, in esp_timer ticks, known to have passed since the last
\* WifiManager::connect() call: it runs on through deep sleep, saturates at
\* the cooldown period, and records a cold start in between.
GapCap == COOLDOWN_SECONDS * US_PER_SEC

NoHist == [had |-> FALSE, since |-> 0, cold |-> FALSE]

Elapsed(h, ticks) ==
    IF h.had THEN [h EXCEPT !.since = Min(h.since + ticks, GapCap)] ELSE h

ColdStart(h) == IF h.had THEN [h EXCEPT !.cold = TRUE] ELSE h

\* a timer wake comes after the armed duration; any other wake may come at once
SleptTicks(cause) ==
    IF cause = "TIMER" /\ armedTimer THEN sleepDuration * US_PER_SEC ELSE 0

\* sta: the station is associated and has an IP address; dropped: a
\* station-disconnected event was delivered; gotIp: a got-IP event was
\* delivered; ret: what connect() returned; events: station-disconnected
\* events delivered during the wait and the send; reconnects: the
\* esp_wifi_connect() calls eventHandler made for them; log: the WiFi calls
\* of this process in call order
NoNet == [sta |-> FALSE, dropped |-> FALSE, gotIp |-> FALSE, ret |-> "none",
          events |-> 0, reconnects |-> 0, log |-> << >>]

NoTg == [called |-> FALSE]

\* no CameraDriver or Detector call recorded yet
NoDrv == [op |-> "none"]

NoRecheck == [done |-> FALSE, cooling |-> FALSE, now |-> 0]

NoApi == [op |-> "none", now |-> 0, arg |-> 0, prev |-> 0,
          cool |-> FALSE, rem |-> 0]

\* Everything a fresh boot rebuilds from nothing.
FreshProcess ==
    /\ espTimer' = 0
    /\ pc' = "boot"
    /\ m_wakeReason' = "UNSET"
    /\ armedTimer' = FALSE
    /\ armedExt1' = FALSE
    /\ sleepDuration' = -1
    /\ edsCooling' = FALSE
    /\ edsNow' = 0
    /\ edsReads' = {}
    /\ sdCard' = NoSdCard
    /\ camera' = NoCamera
    /\ fb' = NoFrame
    /\ warmupI' = 0
    /\ validFrames' = 0
    /\ result' = NoResult
    /\ wifi' = NoWifi
    /\ startCalls' = 0
    /\ path' = "none"
    /\ notify' = "none"
    /\ recheck' = NoRecheck
    /\ hwLog' = << >>
    /\ net' = NoNet
    /\ drv' = NoDrv
    /\ UNCHANGED tg
    /\ UNCHANGED << sleepNow, api >>

Init ==
    /\ s_nextPirAllowTime = 0
    /\ espTimer = 0
    /\ pc = "boot"
    /\ wakeCause = "UNDEFINED"
    /\ m_wakeReason = "UNSET"
    /\ armedTimer = FALSE
    /\ armedExt1 = FALSE
    /\ sleepDuration = -1
    /\ edsCooling = FALSE
    /\ edsNow = 0
    /\ edsReads = {}
    /\ sleepNow = 0
    /\ sdCard = NoSdCard
    /\ camera = NoCamera
    /\ fb = NoFrame
    /\ warmupI = 0
    /\ validFrames = 0
    /\ result = NoResult
    /\ wifi = NoWifi
    /\ startCalls = 0
    /\ path = "none"
    /\ notify = "none"
    /\ allowAtWake = 0
    /\ api = NoApi
    /\ drv = NoDrv
    /\ recheck = NoRecheck
    /\ hist = NoHist
    /\ hwLog = << >>
    /\ net = NoNet
    /\ tg = NoTg

\* ------------------------------------------------------------- environment

\* The esp_timer advances while the process runs.
Tick ==
    /\ pc \notin {"sleeping", "api"}
    /\ espTimer < MaxTicks
    /\ espTimer' = espTimer + 1
    /\ hist' = Elapsed(hist, 1)
    /\ UNCHANGED << s_nextPirAllowTime, pc, wakeVars, armVars,
                    hwVars, warmVars, runVars, allowAtWake, api, drv, recheck,
                    netVars >>

\* faulty variant: the timestamp is kept in ordinary RAM and lost in deep sleep
WakeFromSleep_RtcLost(cause) ==
    /\ pc = "sleeping"
    /\ wakeCause' = cause
    /\ allowAtWake' = 0
    /\ s_nextPirAllowTime' = 0
    /\ hist' = Elapsed(hist, SleptTicks(cause))
    /\ FreshProcess

\* A wake from deep sleep boots a new process; only RTC memory is retained.
WakeFromSleep(cause) ==
    /\ pc = "sleeping"
    /\ wakeCause' = cause
    /\ allowAtWake' = s_nextPirAllowTime
    /\ UNCHANGED s_nextPirAllowTime
    /\ hist' = Elapsed(hist, SleptTicks(cause))
    /\ FreshProcess

\* the armed timer elapses
WakeByTimer == armedTimer /\ WakeFromSleep("TIMER")

\* the PIR pin goes high while EXT1 is armed
WakeByPir == armedExt1 /\ WakeFromSleep("EXT1")

\* any wake cause the constructor does not name
WakeOther == \E cause \in OtherCauses : WakeFromSleep(cause)

\* faulty variant: the timestamp is not re-initialised by a cold start
PowerCycle_KeepsRtc ==
    /\ pc = "sleeping"
    /\ wakeCause' = "UNDEFINED"
    /\ UNCHANGED s_nextPirAllowTime
    /\ allowAtWake' = s_nextPirAllowTime
    /\ hist' = ColdStart(hist)
    /\ FreshProcess

\* total power loss: RTC memory is re-initialised, the cause is undefined
PowerCycle ==
    /\ pc = "sleeping"
    /\ wakeCause' = "UNDEFINED"
    /\ s_nextPirAllowTime' = 0
    /\ allowAtWake' = 0
    /\ hist' = ColdStart(hist)
    /\ FreshProcess

\* abort() (ESP_ERROR_CHECK in WifiManager::initNvs): panic and reboot
PanicReset ==
    /\ pc = "aborted"
    /\ wakeCause' = "UNDEFINED"
    /\ s_nextPirAllowTime' = 0
    /\ allowAtWake' = 0
    /\ hist' = ColdStart(hist)
    /\ FreshProcess

\* ---------------------------------------------------------- app_main

\* faulty variant: the default case falls into the PIR handler
AppMain_UnknownRunsPipeline ==
    /\ pc = "boot"
    /\ m_wakeReason' = WakeReasonOf(wakeCause)
    /\ pc' = CASE m_wakeReason' = "POWER_ON"    -> "power_on"
               [] m_wakeReason' = "TIMER"       -> "timer_wakeup"
               [] OTHER                         -> "pir_trigger"
    /\ UNCHANGED << s_nextPirAllowTime, espTimer, wakeCause,
                    armVars, hwVars, warmVars, runVars, allowAtWake, api, drv,
                    recheck, hist, netVars >>

\* faulty variant: a timer wake is handled as a PIR trigger
AppMain_TimerRunsPipeline ==
    /\ pc = "boot"
    /\ m_wakeReason' = WakeReasonOf(wakeCause)
    /\ pc' = CASE m_wakeReason' = "POWER_ON"    -> "power_on"
               [] m_wakeReason' = "TIMER"       -> "pir_trigger"
               [] m_wakeReason' = "PIR_TRIGGER" -> "pir_trigger"
               [] OTHER                         -> "eds_check"
    /\ UNCHANGED << s_nextPirAllowTime, espTimer, wakeCause,
                    armVars, hwVars, warmVars, runVars, allowAtWake, api, drv,
                    recheck, hist, netVars >>

AppMain ==
    /\ pc = "boot"
    /\ m_wakeReason' = WakeReasonOf(wakeCause)
    /\ pc' = CASE m_wakeReason' = "POWER_ON"    -> "power_on"
               [] m_wakeReason' = "TIMER"       -> "timer_wakeup"
               [] m_wakeReason' = "PIR_TRIGGER" -> "pir_trigger"
               [] OTHER                         -> "eds_check"
    /\ UNCHANGED << s_nextPirAllowTime, espTimer, wakeCause,
                    armVars, hwVars, warmVars, runVars, allowAtWake, api, drv,
                    recheck, hist, netVars >>

\* faulty variant: the PIR warm-up delay is skipped
handlePowerOnBoot_NoWarmup ==
    /\ pc = "power_on"
    /\ pc' = "eds_check"
    /\ UNCHANGED << s_nextPirAllowTime, espTimer, wakeVars, armVars,
                    hwVars, warmVars, runVars, allowAtWake, api, drv,
                    recheck, hist, netVars >>

\* vTaskDelay(WARMUP_MS), then enterDeepSleep()
handlePowerOnBoot ==
    /\ pc = "power_on"
    /\ espTimer' = Min(espTimer + PIR_WARMUP_SEC * US_PER_SEC, MaxTicks)
    /\ pc' = "eds_check"
    /\ hist' = Elapsed(hist, PIR_WARMUP_SEC * US_PER_SEC)
    /\ UNCHANGED << s_nextPirAllowTime, wakeVars, armVars,
                    hwVars, warmVars, runVars, allowAtWake, api, drv, recheck,
                    netVars >>

handleTimerWakeup ==
    /\ pc = "timer_wakeup"
    /\ pc' = "eds_check"
    /\ UNCHANGED << s_nextPirAllowTime, espTimer, wakeVars,
                    armVars, hwVars, warmVars, runVars, allowAtWake, api, drv,
                    recheck, hist, netVars >>

\* ------------------------------------------- SleepManager::enterDeepSleep

\* if (isInCooldown())  -- first clock read
EDS_Check ==
    /\ pc = "eds_check"
    /\ edsCooling' = isInCooldown
    /\ edsNow' = getCurrentTimeSec
    /\ edsReads' = {getCurrentTimeSec}
    /\ pc' = IF isInCooldown THEN "eds_timer" ELSE "eds_ext1"
    /\ UNCHANGED << s_nextPirAllowTime, espTimer, wakeVars, armedTimer,
                    armedExt1, sleepDuration, sleepNow, hwVars, warmVars,
                    runVars, allowAtWake, api, drv,
                    recheck, hist, netVars >>

\* faulty variant: the PIR wake is enabled as well as the timer
EDS_ArmTimer_AlsoExt1 ==
    /\ pc = "eds_timer"
    /\ sleepDuration' = getCooldownRemaining
    /\ edsReads' = edsReads \cup {getCurrentTimeSec}
    /\ armedTimer' = TRUE
    /\ armedExt1' = TRUE
    /\ pc' = "eds_start"
    /\ UNCHANGED << s_nextPirAllowTime, espTimer, wakeVars, edsCooling,
                    edsNow, sleepNow, hwVars, warmVars, runVars,
                    allowAtWake, api, drv,
                    recheck, hist, netVars >>

\* faulty variant: the timer is armed for the whole cooldown period
EDS_ArmTimer_FullCooldown ==
    /\ pc = "eds_timer"
    /\ sleepDuration' = COOLDOWN_SECONDS
    /\ edsReads' = edsReads \cup {getCurrentTimeSec}
    /\ armedTimer' = TRUE
    /\ pc' = "eds_start"
    /\ UNCHANGED << s_nextPirAllowTime, espTimer, wakeVars, armedExt1,
                    edsCooling, edsNow, sleepNow, hwVars,
                    warmVars, runVars, allowAtWake, api, drv, recheck, hist,
                    netVars >>

\* sleepDuration = getCooldownRemaining()  -- second clock read;
\* esp_sleep_enable_timer_wakeup(sleepDuration * 1000000ULL)
EDS_ArmTimer ==
    /\ pc = "eds_timer"
    /\ sleepDuration' = getCooldownRemaining
    /\ edsReads' = edsReads \cup {getCurrentTimeSec}
    /\ armedTimer' = TRUE
    /\ pc' = "eds_start"
    /\ UNCHANGED << s_nextPirAllowTime, espTimer, wakeVars, armedExt1,
                    edsCooling, edsNow, sleepNow, hwVars,
                    warmVars, runVars, allowAtWake, api, drv,
                    recheck, hist, netVars >>

\* esp_sleep_enable_ext1_wakeup(1ULL << PIN, ESP_EXT1_WAKEUP_ANY_HIGH)
EDS_ArmExt1 ==
    /\ pc = "eds_ext1"
    /\ armedExt1' = TRUE
    /\ pc' = "eds_start"
    /\ UNCHANGED << s_nextPirAllowTime, espTimer, wakeVars, armedTimer,
                    sleepDuration, edsCooling, edsNow, edsReads, sleepNow,
                    hwVars, warmVars, runVars, allowAtWake, api, drv,
                    recheck, hist, netVars >>

\* vTaskDelay(100 ms); esp_deep_sleep_start()  -- never returns
DeepSleepStart ==
    /\ pc = "eds_start"
    /\ pc' = "sleeping"
    /\ sleepNow' = getCurrentTimeSec
    /\ UNCHANGED << s_nextPirAllowTime, espTimer, wakeVars, armedTimer,
                    armedExt1, sleepDuration, edsCooling, edsNow, edsReads,
                    hwVars, warmVars, runVars, allowAtWake, api, drv,
                    recheck, hist, netVars >>

\* ------------------------------------------------------------ SdCardDriver

\* mount(): ok is the outcome of esp_vfs_fat_sdmmc_mount
SdCardDriver_mount(sd, ok) ==
    IF sd.m_card THEN sd
    ELSE IF ok THEN [sd EXCEPT !.m_card = TRUE, !.acq = @ + 1]
    ELSE [sd EXCEPT !.m_card = FALSE]

\* mount() == ESP_OK
MountOk(sd, ok) == sd.m_card \/ ok

\* faulty variant: the card is unmounted without the m_card test
SdCardDriver_shutdown_Unguarded(sd) ==
    [sd EXCEPT !.m_card = FALSE, !.rel = @ + 1]

SdCardDriver_shutdown(sd) ==
    IF ~sd.m_card THEN sd
    ELSE [sd EXCEPT !.m_card = FALSE, !.rel = @ + 1]

\* ------------------------------------------------------------ CameraDriver

CameraInitOutcomes == {"ok", "init_fail", "no_sensor"}

\* init(): esp_camera_init fails / the sensor handle is null / success
CameraDriver_init(cam, outcome) ==
    IF cam.m_initialized THEN cam
    ELSE CASE outcome = "init_fail" -> cam
           [] outcome = "no_sensor" -> [cam EXCEPT !.acq = @ + 1, !.rel = @ + 1]
           [] OTHER -> [cam EXCEPT !.m_initialized = TRUE, !.acq = @ + 1]

\* init() == ESP_OK
InitOk(cam, outcome) == cam.m_initialized \/ outcome = "ok"

\* faulty variant: the flag is cleared but esp_camera_deinit is not called
CameraDriver_shutdown_NoDeinit(cam) ==
    [cam EXCEPT !.m_initialized = FALSE]

CameraDriver_shutdown(cam) ==
    IF ~cam.m_initialized THEN cam
    ELSE [cam EXCEPT !.m_initialized = FALSE, !.rel = @ + 1]

\* faulty variant: a frame of exactly the minimum size is rejected
CameraDriver_capture_StrictMin(cam, f, len) ==
    IF ~cam.m_initialized THEN [f EXCEPT !.frame = 0]
    ELSE IF len = 0 THEN [f EXCEPT !.frame = 0]
    ELSE IF len <= MIN_FRAME_SIZE
         THEN [f EXCEPT !.frame = 0, !.acq = @ + 1, !.rel = @ + 1]
    ELSE [f EXCEPT !.frame = len, !.acq = @ + 1]

\* capture(): len is the length of the buffer esp_camera_fb_get delivers,
\* 0 for a null buffer
CameraDriver_capture(cam, f, len) ==
    IF ~cam.m_initialized THEN [f EXCEPT !.frame = 0]
    ELSE IF len = 0 THEN [f EXCEPT !.frame = 0]
    ELSE IF len < MIN_FRAME_SIZE
         THEN [f EXCEPT !.frame = 0, !.acq = @ + 1, !.rel = @ + 1]
    ELSE [f EXCEPT !.frame = len, !.acq = @ + 1]

CameraDriver_returnFrame(f) ==
    IF f.frame # 0 THEN [f EXCEPT !.rel = @ + 1] ELSE f

\* what esp_camera_fb_get delivers to each request of one warmup() call
WarmupRuns == [1..CAMERA_WARMUP_FRAMES -> FrameLens]

\* occurrences of event e in a log
Count(log, e) == Cardinality({k \in 1..Len(log) : log[k] = e})

\* the loop of warmup() from iteration i on; st holds the requests made,
\* validFrames and the esp_camera_fb_get / esp_camera_fb_return calls
RECURSIVE WarmupLoop(_, _, _)
WarmupLoop(lens, i, st) ==
    IF i > CAMERA_WARMUP_FRAMES THEN st
    ELSE LET len == lens[i]
         IN  WarmupLoop(lens, i + 1,
                 [calls |-> st.calls + 1,
                  validFrames |-> IF len # 0 /\ len > MIN_FRAME_SIZE
                                     THEN st.validFrames + 1
                                     ELSE st.validFrames,
                  log |-> IF len # 0
                             THEN st.log \o << "fb_get", "fb_return" >>
                             ELSE st.log])

\* faulty variant: every request counts as a valid frame
CameraDriver_warmup_CountsRequests(cam, lens) ==
    IF ~cam.m_initialized
       THEN [ret |-> FALSE, calls |-> 0, validFrames |-> 0, log |-> << >>]
    ELSE LET st == WarmupLoop(lens, 1, [calls |-> 0, validFrames |-> 0,
                                        log |-> << >>])
         IN  [ret |-> st.calls >= CAMERA_MIN_VALID_FRAMES,
              calls |-> st.calls, validFrames |-> st.validFrames,
              log |-> st.log]

\* warmup(): false on an uninitialised driver, else the loop and
\* validFrames >= CAMERA_MIN_VALID_FRAMES
CameraDriver_warmup(cam, lens) ==
    IF ~cam.m_initialized
       THEN [ret |-> FALSE, calls |-> 0, validFrames |-> 0, log |-> << >>]
    ELSE LET st == WarmupLoop(lens, 1, [calls |-> 0, validFrames |-> 0,
                                        log |-> << >>])
         IN  [ret |-> st.validFrames >= CAMERA_MIN_VALID_FRAMES,
              calls |-> st.calls, validFrames |-> st.validFrames,
              log |-> st.log]

\* ------------------------------------------------------------- WifiManager

\* the ways the set-up part of connect() can end: abort() in initNvs, an
\* error return of initNvs, of xEventGroupCreate, of a step before or after
\* the handlers are registered, or esp_wifi_start() succeeding
\* (reg_err: registering the WIFI_EVENT handler fails; ip_reg_err:
\* registering the IP_EVENT handler fails)
WifiOutcomes == {"abort", "nvs_err", "no_mem", "early_err", "reg_err",
                 "ip_reg_err", "late_err", "started"}

\* connect() up to xEventGroupWaitBits: the fields each ending leaves behind
WifiManager_connect(w, outcome) ==
    CASE outcome \in {"abort", "nvs_err", "no_mem"} -> w
      [] outcome = "early_err" -> [w EXCEPT !.m_eventGroup = TRUE]
      [] outcome = "reg_err" ->
            [w EXCEPT !.m_eventGroup = TRUE, !.driver = TRUE]
      [] outcome = "ip_reg_err" ->
            [w EXCEPT !.m_eventGroup = TRUE, !.driver = TRUE,
                      !.handlers = TRUE]
      [] outcome = "late_err" ->
            [w EXCEPT !.m_eventGroup = TRUE, !.driver = TRUE,
                      !.handlers = TRUE, !.ipHandler = TRUE]
      [] OTHER ->
            [w EXCEPT !.m_eventGroup = TRUE, !.driver = TRUE,
                      !.handlers = TRUE, !.ipHandler = TRUE,
                      !.m_initialized = TRUE]

\* eventHandler, IP_EVENT_STA_GOT_IP: if (self->m_eventGroup) set the bit
WifiManager_onGotIp(w) ==
    IF w.m_eventGroup THEN [w EXCEPT !.connectedBit = TRUE] ELSE w

WifiManager_isConnected(w) == w.m_eventGroup /\ w.connectedBit

WifiManager_disconnect(w) ==
    IF ~w.m_initialized THEN w ELSE NoWifi

\* eventHandler on an event of the given kind: the calls it makes.  It runs
\* only while its handler instance is registered.
WifiManager_eventHandler(w, kind) ==
    IF kind = "disc" /\ w.handlers THEN << "esp_wifi_connect" >>
    ELSE IF kind = "gotip" /\ w.ipHandler /\ w.m_eventGroup
         THEN << "xEventGroupSetBits" >>
    ELSE << >>

\* faulty variant: the driver is stopped before the handlers are unregistered
TeardownCalls_StopFirst == << "esp_wifi_stop", "unregister_wifi",
                             "unregister_ip", "esp_wifi_deinit",
                             "vEventGroupDelete" >>

\* the calls of disconnect() past its m_initialized test, in code order
TeardownCalls == << "unregister_wifi", "unregister_ip", "esp_wifi_stop",
                   "esp_wifi_deinit", "vEventGroupDelete" >>

\* one call of disconnect(): the fields it changes
WifiTeardownCall(w, call) ==
    CASE call = "unregister_wifi" -> [w EXCEPT !.handlers = FALSE]
      [] call = "unregister_ip" -> [w EXCEPT !.ipHandler = FALSE]
      [] call = "esp_wifi_stop" -> w
      [] call = "esp_wifi_deinit" -> [w EXCEPT !.driver = FALSE]
      [] OTHER -> [w EXCEPT !.m_eventGroup = FALSE, !.connectedBit = FALSE]

\* an event the event task delivers while disconnect() runs: its kind and
\* the number of teardown calls already made when it is delivered
TeardownEvents ==
    {[kind |-> "none", at |-> 0]}
    \cup [kind : {"disc", "gotip"}, at : 0..Len(TeardownCalls)]

\* disconnect() from call k on, with event ev delivered on its way: the
\* calls made by disconnect() and by eventHandler, in order
RECURSIVE TeardownFrom(_, _, _)
TeardownFrom(w, k, ev) ==
    LET handled == IF ev.kind # "none" /\ ev.at = k - 1
                      THEN WifiManager_eventHandler(w, ev.kind)
                      ELSE << >>
    IN  IF k > Len(TeardownCalls) THEN handled
        ELSE handled \o << TeardownCalls[k] >>
             \o TeardownFrom(WifiTeardownCall(w, TeardownCalls[k]), k + 1, ev)

\* the calls one disconnect() makes: none unless m_initialized
WifiManager_disconnectCalls(w, ev) ==
    IF ~w.m_initialized THEN << >> ELSE TeardownFrom(w, 1, ev)

\* ---------------------------------------------------------- TelegramClient

\* lengths of the multipart header and tail, and the largest image length
HeaderLen == 2
TailLen == 1
MaxDataLen == 2

HTTP_OK == 200

StatusCodes == {-1, HTTP_OK, 400}

\* what the HTTP client does during one sendDocument call: whether
\* esp_http_client_init and esp_http_client_open succeed, the return values
\* of the three esp_http_client_write calls, the status code of the response
\* (a call that is not reached returns nothing: its field stays at 0)
HttpRun(initOk, openOk, wroteH, wroteD, wroteT, status) ==
    [initOk |-> initOk, openOk |-> openOk, wroteH |-> wroteH,
     wroteD |-> wroteD, wroteT |-> wroteT, status |-> status]

HttpRuns(dataLen, online) ==
    {HttpRun(FALSE, FALSE, 0, 0, 0, 0), HttpRun(TRUE, FALSE, 0, 0, 0, 0)}
    \cup (IF ~online THEN {} ELSE
          {HttpRun(TRUE, TRUE, h, 0, 0, 0) : h \in -1..(HeaderLen - 1)}
          \cup {HttpRun(TRUE, TRUE, HeaderLen, d, 0, 0) :
                   d \in -1..(dataLen - 1)}
          \cup {HttpRun(TRUE, TRUE, HeaderLen, dataLen, t, 0) :
                   t \in -1..(TailLen - 1)}
          \cup {HttpRun(TRUE, TRUE, HeaderLen, dataLen, TailLen, s) :
                   s \in StatusCodes})

\* faulty variant: ESP_OK as soon as the body is written, whatever the status
TelegramClient_sendDocument_IgnoresStatus(data, dataLen, http) ==
    LET call == [called |-> TRUE, data |-> data, dataLen |-> dataLen,
                 client |-> FALSE, cleaned |-> FALSE, hdr |-> 0, body |-> 0,
                 tail |-> 0, status |-> 0, ret |-> "none"]
    IN  IF ~data \/ dataLen = 0
           THEN [call EXCEPT !.ret = "ESP_ERR_INVALID_ARG"]
        ELSE IF ~http.initOk
           THEN [call EXCEPT !.ret = "ESP_ERR_NO_MEM"]
        ELSE IF ~http.openOk
           THEN [call EXCEPT !.client = TRUE, !.cleaned = TRUE,
                             !.ret = "ESP_ERR_HTTP_CONNECT"]
        ELSE IF http.wroteH # HeaderLen
           THEN [call EXCEPT !.client = TRUE, !.cleaned = TRUE,
                             !.hdr = Max(http.wroteH, 0), !.ret = "ESP_FAIL"]
        ELSE IF http.wroteD # dataLen
           THEN [call EXCEPT !.client = TRUE, !.cleaned = TRUE,
                             !.hdr = HeaderLen, !.body = Max(http.wroteD, 0),
                             !.ret = "ESP_FAIL"]
        ELSE IF http.wroteT # TailLen
           THEN [call EXCEPT !.client = TRUE, !.cleaned = TRUE,
                             !.hdr = HeaderLen, !.body = dataLen,
                             !.tail = Max(http.wroteT, 0), !.ret = "ESP_FAIL"]
        ELSE [call EXCEPT !.client = TRUE, !.cleaned = TRUE,
                          !.hdr = HeaderLen, !.body = dataLen,
                          !.tail = TailLen, !.status = http.status,
                          !.ret = "ESP_OK"]

\* sendDocument(data, dataLen, ...): the return value, whether a client was
\* created and cleaned up, and what was written and received
TelegramClient_sendDocument(data, dataLen, http) ==
    LET call == [called |-> TRUE, data |-> data, dataLen |-> dataLen,
                 client |-> FALSE, cleaned |-> FALSE, hdr |-> 0, body |-> 0,
                 tail |-> 0, status |-> 0, ret |-> "none"]
    IN  IF ~data \/ dataLen = 0
           THEN [call EXCEPT !.ret = "ESP_ERR_INVALID_ARG"]
        ELSE IF ~http.initOk
           THEN [call EXCEPT !.ret = "ESP_ERR_NO_MEM"]
        ELSE IF ~http.openOk
           THEN [call EXCEPT !.client = TRUE, !.cleaned = TRUE,
                             !.ret = "ESP_ERR_HTTP_CONNECT"]
        ELSE IF http.wroteH # HeaderLen
           THEN [call EXCEPT !.client = TRUE, !.cleaned = TRUE,
                             !.hdr = Max(http.wroteH, 0), !.ret = "ESP_FAIL"]
        ELSE IF http.wroteD # dataLen
           THEN [call EXCEPT !.client = TRUE, !.cleaned = TRUE,
                             !.hdr = HeaderLen, !.body = Max(http.wroteD, 0),
                             !.ret = "ESP_FAIL"]
        ELSE IF http.wroteT # TailLen
           THEN [call EXCEPT !.client = TRUE, !.cleaned = TRUE,
                             !.hdr = HeaderLen, !.body = dataLen,
                             !.tail = Max(http.wroteT, 0), !.ret = "ESP_FAIL"]
        ELSE [call EXCEPT !.client = TRUE, !.cleaned = TRUE,
                          !.hdr = HeaderLen, !.body = dataLen,
                          !.tail = TailLen, !.status = http.status,
                          !.ret = IF http.status = HTTP_OK
                                     THEN "ESP_OK" ELSE "ESP_FAIL"]

\* ------------------------------------------------------- handlePirTrigger

\* faulty variant: the confidence threshold is not applied
Confident_NoThreshold(res) == res.detected

Confident(res) == res.detected /\ res.confidence >= MIN_CONFIDENCE

\* faulty variant: a failed JPEG decode is not tested
Detector_detect_IgnoresDecode(frame, decoded, found) ==
    IF frame = 0 THEN NoResult
    ELSE found

\* Detector::detect: frame is the length of the frame buffer (0 for a null
\* frame, a null buffer or length 0), decoded tells whether sw_decode_jpeg
\* delivered an image, found is the first detection of the model (NoResult
\* when it found nothing)
Detector_detect(frame, decoded, found) ==
    IF frame = 0 THEN NoResult
    ELSE IF ~decoded THEN NoResult
    ELSE found

DetectOutcomes ==
    {NoResult} \cup {[detected |-> TRUE, confidence |-> c] : c \in ConfValues}

\* what a driver call adds to the log: a successful acquisition, a release
Acquired(old, new, event) == IF new.acq > old.acq THEN << event >> ELSE << >>

Released(old, new, event) == IF new.rel > old.rel THEN << event >> ELSE << >>

\* faulty variant: the re-check logs the cooldown and runs the pipeline anyway
PirRecheck_NoAbort ==
    /\ pc = "pir_trigger"
    /\ recheck' = [done |-> TRUE, cooling |-> isInCooldown,
                   now |-> getCurrentTimeSec]
    /\ pc' = "mount"
    /\ path' = path
    /\ UNCHANGED << s_nextPirAllowTime, espTimer, wakeVars, armVars, hwVars,
                    warmVars, result, wifi, startCalls, notify, allowAtWake,
                    api, drv, hist, netVars >>

\* faulty variant: an ignored trigger restarts the cooldown
PirRecheck_RestartsCooldown ==
    /\ pc = "pir_trigger"
    /\ recheck' = [done |-> TRUE, cooling |-> isInCooldown,
                   now |-> getCurrentTimeSec]
    /\ IF isInCooldown
          THEN /\ pc' = "eds_check"
               /\ path' = "recheck"
               /\ s_nextPirAllowTime' = getCurrentTimeSec + COOLDOWN_SECONDS
          ELSE /\ pc' = "mount"
               /\ path' = path
               /\ UNCHANGED s_nextPirAllowTime
    /\ UNCHANGED << espTimer, wakeVars, armVars, hwVars,
                    warmVars, result, wifi, startCalls, notify, allowAtWake,
                    api, drv, hist, netVars >>

\* if (sleepMgr.isInCooldown()) { getCooldownRemaining(); enterDeepSleep(); }
PirRecheck ==
    /\ pc = "pir_trigger"
    /\ recheck' = [done |-> TRUE, cooling |-> isInCooldown,
                   now |-> getCurrentTimeSec]
    /\ IF isInCooldown
          THEN pc' = "eds_check" /\ path' = "recheck"
          ELSE pc' = "mount" /\ path' = path
    /\ UNCHANGED << s_nextPirAllowTime, espTimer, wakeVars, armVars, hwVars,
                    warmVars, result, wifi, startCalls, notify, allowAtWake,
                    api, drv, hist, netVars >>

\* faulty variant: a failed mount is logged and the pipeline carries on
MountSd_IgnoresFailure ==
    /\ pc = "mount"
    /\ \E ok \in BOOLEAN : sdCard' = SdCardDriver_mount(sdCard, ok)
    /\ pc' = "cam_init"
    /\ path' = path
    /\ hwLog' = hwLog \o Acquired(sdCard, sdCard', "mount")
    /\ UNCHANGED << s_nextPirAllowTime, espTimer, wakeVars, armVars, camera,
                    fb, warmVars, result, wifi, startCalls, notify,
                    allowAtWake, api, drv, recheck, hist, netVars >>

\* STEP 1: sdCard.mount(); on failure sdCard.shutdown(), enterDeepSleep()
MountSd ==
    /\ pc = "mount"
    /\ \E ok \in BOOLEAN :
         LET sd == SdCardDriver_mount(sdCard, ok)
         IN  IF MountOk(sdCard, ok)
                THEN /\ sdCard' = sd
                     /\ pc' = "cam_init"
                     /\ path' = path
                ELSE /\ sdCard' = SdCardDriver_shutdown(sd)
                     /\ pc' = "eds_check"
                     /\ path' = "mount_fail"
    /\ hwLog' = hwLog \o Acquired(sdCard, sdCard', "mount")
                     \o Released(sdCard, sdCard', "unmount")
    /\ UNCHANGED << s_nextPirAllowTime, espTimer, wakeVars, armVars, camera,
                    fb, warmVars, result, wifi, startCalls, notify,
                    allowAtWake, api, drv, recheck, hist, netVars >>

\* faulty variant: a failed camera.init() leaves the SD card mounted
CameraInit_FailLeavesSd ==
    /\ pc = "cam_init"
    /\ \E outcome \in CameraInitOutcomes :
         LET cam == CameraDriver_init(camera, outcome)
         IN  IF InitOk(camera, outcome)
                THEN /\ camera' = cam
                     /\ pc' = "warmup"
                     /\ UNCHANGED << sdCard, path >>
                ELSE /\ camera' = CameraDriver_shutdown(cam)
                     /\ sdCard' = sdCard
                     /\ pc' = "eds_check"
                     /\ path' = "init_fail"
    /\ warmupI' = 0
    /\ validFrames' = 0
    /\ hwLog' = hwLog \o Acquired(camera, camera', "init")
                     \o Released(camera, camera', "deinit")
                     \o Released(sdCard, sdCard', "unmount")
    /\ UNCHANGED << s_nextPirAllowTime, espTimer, wakeVars, armVars, fb,
                    result, wifi, startCalls, notify, allowAtWake, api, drv,
                    recheck, hist, netVars >>

\* faulty variant: after a failed camera init the pipeline starts over
CameraInit_StartsOver ==
    /\ pc = "cam_init"
    /\ \E outcome \in CameraInitOutcomes :
         LET cam == CameraDriver_init(camera, outcome)
         IN  IF InitOk(camera, outcome)
                THEN /\ camera' = cam
                     /\ pc' = "warmup"
                     /\ UNCHANGED << sdCard, path >>
                ELSE /\ camera' = CameraDriver_shutdown(cam)
                     /\ sdCard' = SdCardDriver_shutdown(sdCard)
                     /\ pc' = "mount"
                     /\ path' = "init_fail"
    /\ warmupI' = 0
    /\ validFrames' = 0
    /\ hwLog' = hwLog \o Acquired(camera, camera', "init")
                     \o Released(camera, camera', "deinit")
                     \o Released(sdCard, sdCard', "unmount")
    /\ UNCHANGED << s_nextPirAllowTime, espTimer, wakeVars, armVars, fb,
                    result, wifi, startCalls, notify, allowAtWake, api, drv,
                    recheck, hist, netVars >>

\* STEP 2: camera.init(); on failure camera.shutdown(), sdCard.shutdown()
CameraInit ==
    /\ pc = "cam_init"
    /\ \E outcome \in CameraInitOutcomes :
         LET cam == CameraDriver_init(camera, outcome)
         IN  IF InitOk(camera, outcome)
                THEN /\ camera' = cam
                     /\ pc' = "warmup"
                     /\ UNCHANGED << sdCard, path >>
                ELSE /\ camera' = CameraDriver_shutdown(cam)
                     /\ sdCard' = SdCardDriver_shutdown(sdCard)
                     /\ pc' = "eds_check"
                     /\ path' = "init_fail"
    /\ warmupI' = 0
    /\ validFrames' = 0
    /\ hwLog' = hwLog \o Acquired(camera, camera', "init")
                     \o Released(camera, camera', "deinit")
                     \o Released(sdCard, sdCard', "unmount")
    /\ UNCHANGED << s_nextPirAllowTime, espTimer, wakeVars, armVars, fb,
                    result, wifi, startCalls, notify, allowAtWake, api, drv,
                    recheck, hist, netVars >>

\* STEP 3, one iteration of the loop of CameraDriver::warmup
WarmupFrame ==
    /\ pc = "warmup"
    /\ camera.m_initialized
    /\ warmupI < CAMERA_WARMUP_FRAMES
    /\ \E len \in FrameLens :
         /\ fb' = IF len # 0
                     THEN [fb EXCEPT !.acq = @ + 1, !.rel = @ + 1]
                     ELSE fb
         /\ validFrames' = IF len # 0 /\ len > MIN_FRAME_SIZE
                              THEN validFrames + 1
                              ELSE validFrames
    /\ warmupI' = warmupI + 1
    /\ UNCHANGED << s_nextPirAllowTime, espTimer, pc, wakeVars, armVars,
                    sdCard, camera, hwLog, runVars, allowAtWake, api, drv,
                    recheck, hist, netVars >>

\* STEP 3, the result of warmup(); on failure camera.shutdown(),
\* sdCard.shutdown(), enterDeepSleep()
WarmupDone ==
    /\ pc = "warmup"
    /\ ~camera.m_initialized \/ warmupI >= CAMERA_WARMUP_FRAMES
    /\ IF camera.m_initialized /\ validFrames >= CAMERA_MIN_VALID_FRAMES
          THEN /\ pc' = "capture"
               /\ UNCHANGED << sdCard, camera, path >>
          ELSE /\ camera' = CameraDriver_shutdown(camera)
               /\ sdCard' = SdCardDriver_shutdown(sdCard)
               /\ pc' = "eds_check"
               /\ path' = "warmup_fail"
    /\ hwLog' = hwLog \o Released(camera, camera', "deinit")
                     \o Released(sdCard, sdCard', "unmount")
    /\ UNCHANGED << s_nextPirAllowTime, espTimer, wakeVars, armVars, fb,
                    warmVars, result, wifi, startCalls, notify, allowAtWake,
                    api, drv, recheck, hist, netVars >>

\* STEP 4: frame = camera.capture(); on nullptr camera.shutdown(),
\* sdCard.shutdown(), enterDeepSleep()
Capture ==
    /\ pc = "capture"
    /\ \E len \in FrameLens :
         LET f == CameraDriver_capture(camera, fb, len)
         IN  /\ fb' = f
             /\ IF f.frame # 0
                   THEN /\ pc' = "detect"
                        /\ UNCHANGED << sdCard, camera, path >>
                   ELSE /\ camera' = CameraDriver_shutdown(camera)
                        /\ sdCard' = SdCardDriver_shutdown(sdCard)
                        /\ pc' = "eds_check"
                        /\ path' = "capture_fail"
    /\ hwLog' = hwLog \o (IF fb'.frame # 0 THEN << "capture" >> ELSE << >>)
                     \o Released(camera, camera', "deinit")
                     \o Released(sdCard, sdCard', "unmount")
    /\ UNCHANGED << s_nextPirAllowTime, espTimer, wakeVars, armVars,
                    warmVars, result, wifi, startCalls, notify, allowAtWake,
                    api, drv, recheck, hist, netVars >>

\* STEP 5: result = detector.detect(frame)
Detect ==
    /\ pc = "detect"
    /\ \E decoded \in BOOLEAN, found \in DetectOutcomes :
         /\ result' = Detector_detect(fb.frame, decoded, found)
         /\ drv' = [op |-> "detect", frame |-> fb.frame, decoded |-> decoded,
                    result |-> result']
    /\ pc' = "decide"
    /\ UNCHANGED << s_nextPirAllowTime, espTimer, wakeVars, armVars, hwVars,
                    warmVars, wifi, startCalls, path, notify, allowAtWake,
                    api, recheck, hist, netVars >>

\* if (result.detected && result.confidence >= MIN_CONFIDENCE)
Decide ==
    /\ pc = "decide"
    /\ IF Confident(result)
          THEN pc' = "wifi_connect" /\ path' = "confident"
          ELSE pc' = "cleanup" /\ path' = "negative"
    /\ UNCHANGED << s_nextPirAllowTime, espTimer, wakeVars, armVars, hwVars,
                    warmVars, result, wifi, startCalls, notify, allowAtWake,
                    api, drv, recheck, hist, netVars >>

\* faulty variant: startCooldown sits inside the connected branch
WifiConnect_FailSkipsCooldown ==
    /\ pc = "wifi_connect"
    /\ \E outcome \in WifiOutcomes :
         /\ wifi' = WifiManager_connect(wifi, outcome)
         /\ IF outcome = "abort"
               THEN /\ pc' = "aborted" /\ notify' = notify
                    /\ net' = [net EXCEPT !.log = @ \o << "connect" >>]
               ELSE IF outcome = "started"
               THEN /\ pc' = "wifi_wait" /\ notify' = notify
                    /\ net' = [net EXCEPT
                                 !.log = @ \o << "connect", "esp_wifi_start" >>]
               ELSE /\ pc' = "cleanup"
                    /\ notify' = "connect_err"
                    /\ net' = [net EXCEPT !.ret = "ESP_FAIL",
                                          !.log = @ \o << "connect" >>]
    /\ hist' = [had |-> TRUE, since |-> 0, cold |-> FALSE]
    /\ UNCHANGED << s_nextPirAllowTime, espTimer, wakeVars, armVars, hwVars,
                    warmVars, result, startCalls, path, allowAtWake, api, drv,
                    recheck, tg >>

\* STEP 6: wifi.connect(), from initNvs() to esp_wifi_start(); an error
\* return takes the else branch of the if
WifiConnect ==
    /\ pc = "wifi_connect"
    /\ \E outcome \in WifiOutcomes :
         /\ wifi' = WifiManager_connect(wifi, outcome)
         /\ IF outcome = "abort"
               THEN /\ pc' = "aborted" /\ notify' = notify
                    /\ net' = [net EXCEPT !.log = @ \o << "connect" >>]
               ELSE IF outcome = "started"
               THEN /\ pc' = "wifi_wait" /\ notify' = notify
                    /\ net' = [net EXCEPT
                                 !.log = @ \o << "connect", "esp_wifi_start" >>]
               ELSE /\ pc' = "start_cooldown"
                    /\ notify' = "connect_err"
                    /\ net' = [net EXCEPT !.ret = "ESP_FAIL",
                                          !.log = @ \o << "connect" >>]
    /\ hist' = [had |-> TRUE, since |-> 0, cold |-> FALSE]
    /\ UNCHANGED << s_nextPirAllowTime, espTimer, wakeVars, armVars, hwVars,
                    warmVars, result, startCalls, path, allowAtWake, api, drv,
                    recheck, tg >>

\* the station gets an address: IP_EVENT_STA_GOT_IP reaches eventHandler
WifiGotIp ==
    /\ pc \in {"wifi_wait", "send"}
    /\ wifi.handlers /\ wifi.m_initialized
    /\ ~net.sta
    /\ net' = [net EXCEPT !.sta = TRUE, !.gotIp = TRUE]
    /\ wifi' = WifiManager_onGotIp(wifi)
    /\ UNCHANGED << s_nextPirAllowTime, espTimer, pc, wakeVars, armVars,
                    hwVars, warmVars, result, startCalls, path, notify,
                    allowAtWake, api, drv, recheck, hist, tg >>

\* the association is lost or an attempt fails: WIFI_EVENT_STA_DISCONNECTED
\* reaches eventHandler, which only calls esp_wifi_connect() again
WifiStaDisconnected ==
    /\ pc \in {"wifi_wait", "send"}
    /\ wifi.handlers /\ wifi.m_initialized
    /\ net.sta \/ ~net.dropped
    /\ net.events < MaxWifiEvents
    /\ net' = [net EXCEPT
                 !.sta = FALSE, !.dropped = TRUE, !.events = @ + 1,
                 !.reconnects =
                     @ + Len(WifiManager_eventHandler(wifi, "disc"))]
    /\ UNCHANGED << s_nextPirAllowTime, espTimer, pc, wakeVars, armVars,
                    hwVars, warmVars, runVars, allowAtWake, api, drv, recheck,
                    hist, tg >>

\* faulty variant: the send is attempted after a timeout too
WifiWaitReturn_SendsOnTimeout ==
    /\ pc = "wifi_wait"
    /\ IF wifi.connectedBit
          THEN /\ net' = [net EXCEPT !.ret = "ESP_OK"]
               /\ IF WifiManager_isConnected(wifi)
                     THEN pc' = "send" /\ notify' = notify
                     ELSE pc' = "start_cooldown" /\ notify' = "connect_err"
          ELSE /\ net' = [net EXCEPT !.ret = "ESP_ERR_TIMEOUT"]
               /\ pc' = "send"
               /\ notify' = "timeout"
    /\ UNCHANGED << s_nextPirAllowTime, espTimer, wakeVars, armVars, hwVars,
                    warmVars, result, wifi, startCalls, path, allowAtWake,
                    api, drv, recheck, hist, tg >>

\* xEventGroupWaitBits returns: with CONNECTED_BIT set connect() returns
\* ESP_OK and the if goes on to wifi.isConnected(); when the timeout
\* expires with the bit clear connect() returns ESP_ERR_TIMEOUT
WifiWaitReturn ==
    /\ pc = "wifi_wait"
    /\ IF wifi.connectedBit
          THEN /\ net' = [net EXCEPT !.ret = "ESP_OK"]
               /\ IF WifiManager_isConnected(wifi)
                     THEN pc' = "send" /\ notify' = notify
                     ELSE pc' = "start_cooldown" /\ notify' = "connect_err"
          ELSE /\ net' = [net EXCEPT !.ret = "ESP_ERR_TIMEOUT"]
               /\ pc' = "start_cooldown"
               /\ notify' = "timeout"
    /\ UNCHANGED << s_nextPirAllowTime, espTimer, wakeVars, armVars, hwVars,
                    warmVars, result, wifi, startCalls, path, allowAtWake,
                    api, drv, recheck, hist, tg >>

\* telegram.sendDocument(frame->buf, frame->len, ...); wifi.disconnect()
TelegramSend ==
    /\ pc = "send"
    /\ \E http \in HttpRuns(fb.frame, net.sta) :
         LET call == TelegramClient_sendDocument(fb.frame # 0, fb.frame, http)
         IN  notify' = IF call.ret = "ESP_OK" THEN "send_ok" ELSE "send_fail"
    /\ wifi' = WifiManager_disconnect(wifi)
    /\ \E ev \in TeardownEvents :
         net' = [net EXCEPT
                   !.sta = FALSE,
                   !.log = @ \o << "sendDocument" >>
                             \o WifiManager_disconnectCalls(wifi, ev)]
    /\ pc' = "start_cooldown"
    /\ UNCHANGED << s_nextPirAllowTime, espTimer, wakeVars, armVars, hwVars,
                    warmVars, result, startCalls, path, allowAtWake, api, drv,
                    recheck, hist, tg >>

\* sleepMgr.startCooldown(COOLDOWN_SECONDS); the block ends: ~WifiManager()
StartCooldownStep ==
    /\ pc = "start_cooldown"
    /\ startCooldown(COOLDOWN_SECONDS)
    /\ startCalls' = startCalls + 1
    /\ wifi' = WifiManager_disconnect(wifi)
    /\ \E ev \in TeardownEvents :
         net' = [net EXCEPT
                   !.sta = IF wifi.m_initialized THEN FALSE ELSE @,
                   !.log = @ \o WifiManager_disconnectCalls(wifi, ev)]
    /\ pc' = "cleanup"
    /\ UNCHANGED << espTimer, wakeVars, armVars, hwVars, warmVars, result,
                    path, notify, allowAtWake, api, drv, recheck, hist, tg >>

\* faulty variant: the SD card is unmounted before the camera is shut down
Cleanup_UnmountFirst ==
    /\ pc = "cleanup"
    /\ fb' = CameraDriver_returnFrame(fb)
    /\ camera' = CameraDriver_shutdown(camera)
    /\ sdCard' = SdCardDriver_shutdown(sdCard)
    /\ pc' = "eds_check"
    /\ hwLog' = hwLog \o Released(fb, fb', "returnFrame")
                     \o Released(sdCard, sdCard', "unmount")
                     \o Released(camera, camera', "deinit")
    /\ UNCHANGED << s_nextPirAllowTime, espTimer, wakeVars, armVars,
                    warmVars, runVars, allowAtWake, api, drv,
                    recheck, hist, netVars >>

\* faulty variant: the camera is shut down before the frame is returned
Cleanup_DeinitFirst ==
    /\ pc = "cleanup"
    /\ fb' = CameraDriver_returnFrame(fb)
    /\ camera' = CameraDriver_shutdown(camera)
    /\ sdCard' = SdCardDriver_shutdown(sdCard)
    /\ pc' = "eds_check"
    /\ hwLog' = hwLog \o Released(camera, camera', "deinit")
                     \o Released(fb, fb', "returnFrame")
                     \o Released(sdCard, sdCard', "unmount")
    /\ UNCHANGED << s_nextPirAllowTime, espTimer, wakeVars, armVars,
                    warmVars, runVars, allowAtWake, api, drv,
                    recheck, hist, netVars >>

\* STEP 7: camera.returnFrame(frame); camera.shutdown(); sdCard.shutdown()
Cleanup ==
    /\ pc = "cleanup"
    /\ fb' = CameraDriver_returnFrame(fb)
    /\ camera' = CameraDriver_shutdown(camera)
    /\ sdCard' = SdCardDriver_shutdown(sdCard)
    /\ pc' = "eds_check"
    /\ hwLog' = hwLog \o Released(fb, fb', "returnFrame")
                     \o Released(camera, camera', "deinit")
                     \o Released(sdCard, sdCard', "unmount")
    /\ UNCHANGED << s_nextPirAllowTime, espTimer, wakeVars, armVars,
                    warmVars, runVars, allowAtWake, api, drv,
                    recheck, hist, netVars >>

Next ==
    \/ Tick
    \/ WakeByTimer
    \/ WakeByPir
    \/ WakeOther
    \/ PowerCycle
    \/ PanicReset
    \/ AppMain
    \/ handlePowerOnBoot
    \/ handleTimerWakeup
    \/ PirRecheck
    \/ MountSd
    \/ CameraInit
    \/ WarmupFrame
    \/ WarmupDone
    \/ Capture
    \/ Detect
    \/ Decide
    \/ WifiConnect
    \/ WifiGotIp
    \/ WifiStaDisconnected
    \/ WifiWaitReturn
    \/ TelegramSend
    \/ StartCooldownStep
    \/ Cleanup
    \/ EDS_Check
    \/ EDS_ArmTimer
    \/ EDS_ArmExt1
    \/ DeepSleepStart

Spec == Init /\ [][Next]_vars

\* Fairness the scheduling guarantees: the single thread keeps running
\* until esp_deep_sleep_start, a panic reboots, and an armed timer elapses.
\* Nothing forces a PIR event, a power loss or an unknown wake.
ProgramStep ==
    \/ AppMain \/ handlePowerOnBoot \/ handleTimerWakeup \/ PirRecheck
    \/ MountSd \/ CameraInit \/ WarmupFrame \/ WarmupDone \/ Capture
    \/ Detect \/ Decide \/ WifiConnect \/ WifiWaitReturn \/ TelegramSend
    \/ StartCooldownStep
    \/ Cleanup \/ EDS_Check \/ EDS_ArmTimer \/ EDS_ArmExt1 \/ DeepSleepStart
    \/ PanicReset

LiveSpec ==
    Init /\ [][Next]_vars /\ WF_vars(ProgramStep) /\ WF_vars(WakeByTimer)

\* --------------------------------------------------------- call harness
\* Arbitrary sequences of SleepManager calls on an arbitrary persisted
\* timestamp and clock value, and TelegramClient calls on arbitrary
\* arguments.

ApiInit ==
    /\ s_nextPirAllowTime \in 0..MaxAllow
    /\ espTimer \in 0..MaxTicks
    /\ pc = "api"
    /\ wakeCause = "UNDEFINED"
    /\ m_wakeReason = "POWER_ON"
    /\ armedTimer = FALSE
    /\ armedExt1 = FALSE
    /\ sleepDuration = -1
    /\ edsCooling = FALSE
    /\ edsNow = 0
    /\ edsReads = {}
    /\ sleepNow = 0
    /\ sdCard = NoSdCard
    /\ camera = NoCamera
    /\ fb = NoFrame
    /\ warmupI = 0
    /\ validFrames = 0
    /\ result = NoResult
    /\ wifi = NoWifi
    /\ startCalls = 0
    /\ path = "none"
    /\ notify = "none"
    /\ allowAtWake = s_nextPirAllowTime
    /\ api = NoApi
    /\ drv = NoDrv
    /\ recheck = NoRecheck
    /\ hist = NoHist
    /\ hwLog = << >>
    /\ net = NoNet
    /\ tg = NoTg

ApiTick ==
    /\ pc = "api"
    /\ espTimer < MaxTicks
    /\ espTimer' = espTimer + 1
    /\ UNCHANGED << s_nextPirAllowTime, pc, wakeVars, armVars, hwVars,
                    warmVars, runVars, allowAtWake, api, drv,
                    recheck, hist, netVars >>

\* isInCooldown() and getCooldownRemaining() called at one clock value
ApiQuery ==
    /\ pc = "api"
    /\ api' = [op |-> "query", now |-> getCurrentTimeSec, arg |-> 0,
               prev |-> s_nextPirAllowTime, cool |-> isInCooldown,
               rem |-> getCooldownRemaining]
    /\ UNCHANGED << s_nextPirAllowTime, espTimer, pc, wakeVars, armVars,
                    hwVars, warmVars, runVars, allowAtWake, recheck, hist,
                    netVars, drv >>

\* startCooldown(d)
ApiStartCooldown ==
    /\ pc = "api"
    /\ \E d \in 0..MaxDur :
         /\ startCooldown(d)
         /\ api' = [op |-> "start", now |-> getCurrentTimeSec, arg |-> d,
                    prev |-> s_nextPirAllowTime, cool |-> FALSE, rem |-> 0]
    /\ startCalls' = Min(startCalls + 1, 2)
    /\ UNCHANGED << espTimer, pc, wakeVars, armVars, hwVars, warmVars,
                    result, wifi, path, notify, allowAtWake, recheck, hist,
                    netVars, drv >>

\* sendDocument(data, dataLen, caption, filename) on any arguments
ApiSendDocument ==
    /\ pc = "api"
    /\ \E data \in BOOLEAN, dataLen \in 0..MaxDataLen :
         \E http \in HttpRuns(dataLen, TRUE) :
            tg' = TelegramClient_sendDocument(data, dataLen, http)
    /\ UNCHANGED << s_nextPirAllowTime, espTimer, pc, wakeVars, armVars,
                    hwVars, warmVars, runVars, allowAtWake, api, drv, recheck,
                    hist, net >>

ApiNext == ApiTick \/ ApiQuery \/ ApiStartCooldown \/ ApiSendDocument

ApiSpec == ApiInit /\ [][ApiNext]_vars

\* ------------------------------------------------------- driver harness
\* Arbitrary sequences of CameraDriver calls, on an initialised or an
\* uninitialised driver, with every delivery of the sensor, and
\* Detector::detect calls on any frame.

DrvInit ==
    /\ s_nextPirAllowTime = 0
    /\ espTimer = 0
    /\ pc = "drv"
    /\ wakeCause = "UNDEFINED"
    /\ m_wakeReason = "POWER_ON"
    /\ armedTimer = FALSE
    /\ armedExt1 = FALSE
    /\ sleepDuration = -1
    /\ edsCooling = FALSE
    /\ edsNow = 0
    /\ edsReads = {}
    /\ sleepNow = 0
    /\ sdCard = NoSdCard
    /\ camera = NoCamera
    /\ fb = NoFrame
    /\ warmupI = 0
    /\ validFrames = 0
    /\ result = NoResult
    /\ wifi = NoWifi
    /\ startCalls = 0
    /\ path = "none"
    /\ notify = "none"
    /\ allowAtWake = 0
    /\ api = NoApi
    /\ recheck = NoRecheck
    /\ hist = NoHist
    /\ hwLog = << >>
    /\ net = NoNet
    /\ tg = NoTg
    /\ drv = NoDrv

\* camera.init()
DrvCameraInit ==
    /\ pc = "drv"
    /\ camera.acq < MaxDrvCalls
    /\ \E outcome \in CameraInitOutcomes :
         /\ camera' = CameraDriver_init(camera, outcome)
         /\ drv' = [op |-> "init", was |-> camera.m_initialized,
                    ok |-> InitOk(camera, outcome),
                    acquired |-> camera'.acq - camera.acq,
                    released |-> camera'.rel - camera.rel]
    /\ UNCHANGED << s_nextPirAllowTime, espTimer, pc, wakeVars, armVars,
                    sdCard, fb, hwLog, warmVars, runVars, allowAtWake, api,
                    recheck, hist, netVars >>

\* camera.shutdown()
DrvCameraShutdown ==
    /\ pc = "drv"
    /\ camera' = CameraDriver_shutdown(camera)
    /\ drv' = [op |-> "shutdown", was |-> camera.m_initialized,
               ok |-> TRUE, acquired |-> 0,
               released |-> camera'.rel - camera.rel]
    /\ UNCHANGED << s_nextPirAllowTime, espTimer, pc, wakeVars, armVars,
                    sdCard, fb, hwLog, warmVars, runVars, allowAtWake, api,
                    recheck, hist, netVars >>

\* frame = camera.capture(), the caller holding no frame
DrvCapture ==
    /\ pc = "drv"
    /\ fb.frame = 0
    /\ fb.acq < MaxDrvCalls
    /\ \E len \in FrameLens :
         /\ fb' = CameraDriver_capture(camera, fb, len)
         /\ drv' = [op |-> "capture", init |-> camera.m_initialized,
                    len |-> len, frame |-> fb'.frame,
                    gets |-> fb'.acq - fb.acq, returns |-> fb'.rel - fb.rel]
    /\ UNCHANGED << s_nextPirAllowTime, espTimer, pc, wakeVars, armVars,
                    sdCard, camera, hwLog, warmVars, runVars, allowAtWake,
                    api, recheck, hist, netVars >>

\* camera.returnFrame(frame); frame = nullptr
DrvReturnFrame ==
    /\ pc = "drv"
    /\ fb' = [CameraDriver_returnFrame(fb) EXCEPT !.frame = 0]
    /\ drv' = [op |-> "returnFrame"]
    /\ UNCHANGED << s_nextPirAllowTime, espTimer, pc, wakeVars, armVars,
                    sdCard, camera, hwLog, warmVars, runVars, allowAtWake,
                    api, recheck, hist, netVars >>

\* camera.warmup(), the sensor delivering lens[i] to the i-th request
DrvWarmup ==
    /\ pc = "drv"
    /\ fb.acq < MaxDrvCalls
    /\ \E lens \in WarmupRuns :
         LET w == CameraDriver_warmup(camera, lens)
         IN  /\ drv' = [op |-> "warmup", init |-> camera.m_initialized,
                        lens |-> lens, ret |-> w.ret, calls |-> w.calls,
                        log |-> w.log]
             /\ fb' = [fb EXCEPT !.acq = @ + Count(w.log, "fb_get"),
                                 !.rel = @ + Count(w.log, "fb_return")]
    /\ UNCHANGED << s_nextPirAllowTime, espTimer, pc, wakeVars, armVars,
                    sdCard, camera, hwLog, warmVars, runVars, allowAtWake,
                    api, recheck, hist, netVars >>

\* detector.detect(frame) on any frame, a null or empty one included
DrvDetect ==
    /\ pc = "drv"
    /\ \E frame \in FrameLens, decoded \in BOOLEAN, found \in DetectOutcomes :
         drv' = [op |-> "detect", frame |-> frame, decoded |-> decoded,
                 result |-> Detector_detect(frame, decoded, found)]
    /\ UNCHANGED << s_nextPirAllowTime, espTimer, pc, wakeVars, armVars,
                    hwVars, warmVars, runVars, allowAtWake, api, recheck,
                    hist, netVars >>

\* sdCard.mount()
DrvMount ==
    /\ pc = "drv"
    /\ sdCard.acq < MaxDrvCalls
    /\ \E ok \in BOOLEAN :
         /\ sdCard' = SdCardDriver_mount(sdCard, ok)
         /\ drv' = [op |-> "mount", was |-> sdCard.m_card,
                    ok |-> MountOk(sdCard, ok),
                    acquired |-> sdCard'.acq - sdCard.acq,
                    released |-> sdCard'.rel - sdCard.rel]
    /\ UNCHANGED << s_nextPirAllowTime, espTimer, pc, wakeVars, armVars,
                    camera, fb, hwLog, warmVars, runVars, allowAtWake, api,
                    recheck, hist, netVars >>

\* sdCard.shutdown()
DrvUnmount ==
    /\ pc = "drv"
    /\ sdCard' = SdCardDriver_shutdown(sdCard)
    /\ drv' = [op |-> "unmount", was |-> sdCard.m_card, ok |-> TRUE,
               acquired |-> 0, released |-> sdCard'.rel - sdCard.rel]
    /\ UNCHANGED << s_nextPirAllowTime, espTimer, pc, wakeVars, armVars,
                    camera, fb, hwLog, warmVars, runVars, allowAtWake, api,
                    recheck, hist, netVars >>

\* wifi.connect() on a new WifiManager, up to esp_wifi_start()
DrvWifiConnect ==
    /\ pc = "drv"
    /\ wifi = NoWifi
    /\ Count(net.log, "connect") < MaxDrvCalls
    /\ \E outcome \in WifiOutcomes \ {"abort"} :
         /\ wifi' = WifiManager_connect(wifi, outcome)
         /\ net' = [net EXCEPT
                      !.log = @ \o (IF outcome = "started"
                                       THEN << "connect", "esp_wifi_start" >>
                                       ELSE << "connect" >>)]
    /\ drv' = [op |-> "connect", was |-> FALSE, ok |-> wifi'.m_initialized,
               acquired |-> 0, released |-> 0]
    /\ UNCHANGED << s_nextPirAllowTime, espTimer, pc, wakeVars, armVars,
                    hwVars, warmVars, result, startCalls, path, notify,
                    allowAtWake, api, recheck, hist, tg >>

\* wifi.disconnect(), called explicitly or by the destructor
DrvWifiDisconnect ==
    /\ pc = "drv"
    /\ wifi' = WifiManager_disconnect(wifi)
    /\ \E ev \in TeardownEvents :
         LET calls == WifiManager_disconnectCalls(wifi, ev)
         IN  /\ net' = [net EXCEPT !.log = @ \o calls]
             /\ drv' = [op |-> "disconnect", was |-> wifi.m_initialized,
                        ok |-> TRUE, acquired |-> 0,
                        released |-> Count(calls, "esp_wifi_stop")]
    /\ UNCHANGED << s_nextPirAllowTime, espTimer, pc, wakeVars, armVars,
                    hwVars, warmVars, result, startCalls, path, notify,
                    allowAtWake, api, recheck, hist, tg >>

DrvNext ==
    \/ DrvDetect
    \/ DrvCameraInit
    \/ DrvCameraShutdown
    \/ DrvCapture
    \/ DrvReturnFrame
    \/ DrvWarmup

DrvSpec == DrvInit /\ [][DrvNext]_vars

\* Arbitrary sequences of the acquire and release calls of the three
\* resource owners
LifecycleNext ==
    \/ DrvMount
    \/ DrvUnmount
    \/ DrvCameraInit
    \/ DrvCameraShutdown
    \/ DrvWifiConnect
    \/ DrvWifiDisconnect

LifecycleSpec == DrvInit /\ [][LifecycleNext]_vars

\* ------------------------------------------------------------------ claims

EdsPcs == {"eds_check", "eds_timer", "eds_ext1", "eds_start"}

\* C1: whenever esp_deep_sleep_start is invoked, exactly one wake source is
\* armed: the timer wake or the EXT1 level wake on the PIR pin, never both
\* and never neither.
C1_ExactlyOneWakeSource ==
    pc \in {"eds_start", "sleeping"} => (armedTimer # armedExt1)

C1_Witness ==
    pc = "sleeping" /\ armedTimer /\ ~armedExt1 /\ path = "confident"

\* C2: once the pipeline has handed over to enterDeepSleep, on every exit
\* path, the successful acquisitions of storage session, imaging session and
\* frame buffers equal the releases of the same type.
C2_AcquireReleaseBalanced ==
    pc \in EdsPcs \cup {"sleeping"} =>
        /\ sdCard.acq = sdCard.rel
        /\ camera.acq = camera.rel
        /\ fb.acq = fb.rel
        /\ ~sdCard.m_card
        /\ ~camera.m_initialized

C2_Witness ==
    /\ pc = "sleeping"
    /\ path = "capture_fail"
    /\ sdCard.acq = 1 /\ sdCard.rel = 1
    /\ camera.acq = 1 /\ camera.rel = 1
    /\ fb.acq = CAMERA_WARMUP_FRAMES + 1

\* C3: every cooldown eventually ends: once startCooldown was called the
\* device eventually powers down with the PIR level wake armed.  (A power
\* loss, a panic reboot or an unknown wake also discharges the obligation,
\* so only runs of timer wakes can violate it.)
C3_CooldownEventuallyEnds ==
    (startCalls > 0) ~>
        \/ pc = "sleeping" /\ armedExt1
        \/ pc = "boot" /\ wakeCause \in {"UNDEFINED"} \cup OtherCauses

\* C4: the clock read by the process a wake starts is never smaller than the
\* clock read before the preceding power-down.
C4_ClockSurvivesPowerDown ==
    [][(pc = "sleeping" /\ pc' = "boot" /\ wakeCause' # "UNDEFINED")
         => getCurrentTimeSec' >= sleepNow]_vars

\* C5: in the confident-detection branch startCooldown is called exactly
\* once, whatever the notification attempt did, before anything is released
\* and before power-down.
C5_CooldownOnEveryNotifyOutcome ==
    path = "confident" =>
        /\ startCalls <= 1
        /\ pc \in EdsPcs \cup {"sleeping"} =>
              /\ startCalls = 1
              /\ notify \in {"connect_err", "timeout", "send_fail", "send_ok"}
        /\ (sdCard.rel > 0 \/ camera.rel > 0 \/ fb.rel = fb.acq) =>
              startCalls = 1

C5_Witness ==
    /\ pc = "sleeping"
    /\ path = "confident"
    /\ notify = "timeout"
    /\ startCalls = 1

\* C6: in a pipeline run allowed_after is written if and only if detection
\* returned detected with confidence >= MIN_CONFIDENCE; on every other exit
\* path its value at power-down is its value at wake.
C6_WrittenIffConfident ==
    (m_wakeReason = "PIR_TRIGGER" /\ pc \in EdsPcs \cup {"sleeping"}) =>
        /\ (startCalls > 0) <=>
              (result.detected /\ result.confidence >= MIN_CONFIDENCE)
        /\ (startCalls > 0) <=> (path = "confident")
        /\ path # "confident" => s_nextPirAllowTime = allowAtWake

C6_Witness ==
    /\ pc = "sleeping"
    /\ path = "negative"
    /\ result.detected
    /\ result.confidence = MIN_CONFIDENCE - 1
    /\ startCalls = 0

\* C7: at power-down the wake source follows the cooldown state at a clock
\* value now that enterDeepSleep read: cooling at now => timer armed for
\* remaining(now), no level wake; not cooling at now => level wake armed, no
\* timer.
C7_WakeSourceFromCooldownState ==
    pc = "sleeping" =>
        \E now \in edsReads :
            IF InCooldownAt(s_nextPirAllowTime, now)
               THEN /\ armedTimer /\ ~armedExt1
                    /\ sleepDuration = RemainingAt(s_nextPirAllowTime, now)
               ELSE armedExt1 /\ ~armedTimer

\* C8: getCooldownRemaining() is 0 exactly when isInCooldown() is false and
\* otherwise allowed_after - now > 0: remaining = max(0, allowed_after - now)
\* and cooling = (now < allowed_after).
C8_RemainingMatchesCooldown ==
    api.op = "query" =>
        /\ (api.rem = 0) <=> ~api.cool
        /\ api.cool => (api.rem = api.prev - api.now /\ api.rem > 0)
        /\ api.rem = Max(0, api.prev - api.now)
        /\ api.cool <=> (api.now < api.prev)

C8_Witness ==
    api.op = "query" /\ api.now = api.prev /\ api.prev > 0

\* C9: allowed_after changes only through startCooldown: no query, no
\* enterDeepSleep step and no wake from deep sleep changes it (a cold start
\* re-initialises RTC memory).
C9_OnlyStartCooldownWrites ==
    [][s_nextPirAllowTime' # s_nextPirAllowTime =>
          \/ pc = "start_cooldown"
          \/ pc' = "boot" /\ wakeCause' = "UNDEFINED"]_vars

C9_Witness ==
    /\ pc = "sleeping"
    /\ path = "recheck"
    /\ s_nextPirAllowTime > 0
    /\ s_nextPirAllowTime = allowAtWake

\* C10: startCooldown(d) at clock value now sets allowed_after to now + d,
\* whatever it was before (last writer wins, no stacking).
C10_StartOverwrites ==
    api.op = "start" => s_nextPirAllowTime = api.now + api.arg

C10_Witness ==
    /\ api.op = "start"
    /\ api.prev > api.now
    /\ api.arg > 0
    /\ startCalls = 2
    /\ s_nextPirAllowTime < api.prev + api.arg

\* C11: allowed_after is the only state carried into the next process, and it
\* is carried unchanged: at the start of a process launched by a Trigger,
\* TimerExpired or Unknown wake it has the value it had when the power-down
\* was invoked, at a cold start (PowerOn) it is 0, and everything else
\* (clock, wake classification, armed wake sources, drivers) starts afresh.
C11_OnlyAllowedAfterSurvives ==
    [][(pc # "boot" /\ pc' = "boot") =>
          /\ s_nextPirAllowTime' = IF wakeCause' = "UNDEFINED"
                                      THEN 0 ELSE s_nextPirAllowTime
          /\ espTimer' = 0
          /\ m_wakeReason' = "UNSET"
          /\ ~armedTimer' /\ ~armedExt1'
          /\ sdCard' = NoSdCard /\ camera' = NoCamera /\ fb' = NoFrame
          /\ result' = NoResult /\ wifi' = NoWifi]_vars

C11_Witness ==
    /\ pc = "boot"
    /\ wakeCause \in {"EXT1", "TIMER"}
    /\ s_nextPirAllowTime = COOLDOWN_SECONDS + 1
    /\ allowAtWake = s_nextPirAllowTime

\* C12: on a PowerOn wake the process waits the PIR warm-up, acquires no
\* storage, imaging or network resource, does not write allowed_after, and
\* powers down with the level wake (and not the timer) armed.
C12_PowerOnWarmupThenLevelWake ==
    m_wakeReason = "POWER_ON" =>
        /\ pc \in {"power_on", "sleeping"} \cup EdsPcs
        /\ sdCard = NoSdCard /\ camera = NoCamera /\ fb = NoFrame
        /\ wifi = NoWifi /\ result = NoResult
        /\ startCalls = 0
        /\ s_nextPirAllowTime = 0 /\ allowAtWake = 0
        /\ pc # "power_on" => espTimer >= PIR_WARMUP_SEC * US_PER_SEC
        /\ pc = "sleeping" =>
              armedExt1 /\ ~armedTimer /\ sleepNow >= PIR_WARMUP_SEC

C12_Witness ==
    /\ pc = "sleeping"
    /\ m_wakeReason = "POWER_ON"
    /\ armedExt1 /\ ~armedTimer
    /\ sleepNow = PIR_WARMUP_SEC

\* C13: a pipeline run that was not cooling at its re-check and fails at the
\* mount, the camera init, the stabilisation or the capture has released
\* every resource it acquired (after a failed camera init the SD card that
\* was mounted is unmounted), has started no cooldown, and powers down with
\* the level wake armed.
FailPaths == {"mount_fail", "init_fail", "warmup_fail", "capture_fail"}

C13_FailureReleasesAndArmsLevelWake ==
    path \in FailPaths =>
        /\ recheck.done /\ ~recheck.cooling
        /\ pc \in EdsPcs \cup {"sleeping"}
        /\ ~sdCard.m_card /\ sdCard.acq = sdCard.rel
        /\ ~camera.m_initialized /\ camera.acq = camera.rel
        /\ fb.acq = fb.rel
        /\ path # "mount_fail" => sdCard.acq = 1 /\ sdCard.rel = 1
        /\ path \in {"warmup_fail", "capture_fail"} => camera.rel = 1
        /\ wifi = NoWifi
        /\ startCalls = 0 /\ s_nextPirAllowTime = allowAtWake
        /\ pc = "sleeping" => armedExt1 /\ ~armedTimer

C13_Witness ==
    /\ pc = "sleeping"
    /\ path = "init_fail"
    /\ sdCard.acq = 1 /\ sdCard.rel = 1
    /\ armedExt1 /\ ~armedTimer

\* the latest of the clock values enterDeepSleep has read
LastRead(reads) == CHOOSE x \in reads : \A y \in reads : y <= x

NotifyFailures == {"connect_err", "timeout", "send_fail"}

\* C14 as stated: after a confident detection whose notification failed the
\* power-down arms the timer wake with the full cooldown length.
C14_TimerArmedForFullCooldown ==
    (pc = "sleeping" /\ path = "confident" /\ notify \in NotifyFailures) =>
        /\ startCalls = 1
        /\ armedTimer /\ ~armedExt1
        /\ sleepDuration = COOLDOWN_SECONDS

\* C14 amended: after a confident detection whose notification failed,
\* startCooldown(COOLDOWN_SECONDS) has run once, at a clock value between the
\* re-check and the power-down, and the power-down arms what is left of the
\* cooldown at the clock reads of enterDeepSleep: the timer wake with
\* allowed_after minus the clock, at most the cooldown length and equal to it
\* only if the clock has not advanced since startCooldown; the level wake if
\* the whole cooldown has already passed.
C14_TimerArmedForRemainder ==
    (pc = "sleeping" /\ path = "confident" /\ notify \in NotifyFailures) =>
        LET startNow == s_nextPirAllowTime - COOLDOWN_SECONDS
        IN  /\ startCalls = 1
            /\ recheck.now <= startNow /\ startNow <= edsNow
            /\ edsNow < s_nextPirAllowTime =>
                  /\ armedTimer /\ ~armedExt1
                  /\ sleepDuration =
                        Max(0, s_nextPirAllowTime - LastRead(edsReads))
                  /\ sleepDuration <= COOLDOWN_SECONDS
            /\ edsNow >= s_nextPirAllowTime => armedExt1 /\ ~armedTimer
            /\ edsReads = {startNow} =>
                  armedTimer /\ sleepDuration = COOLDOWN_SECONDS

C14_Witness ==
    /\ pc = "sleeping"
    /\ path = "confident"
    /\ notify = "send_fail"
    /\ startCalls = 1
    /\ armedTimer
    /\ sleepDuration = COOLDOWN_SECONDS - 1

\* C15: on a TimerExpired wake that follows a cooldown's timer sleep the
\* cooldown is over (the clock has reached allowed_after) and the handler
\* re-arms the PIR: it acquires no resource, leaves allowed_after alone and
\* powers down with the level wake armed.
C15_TimerWakeRearmsPir ==
    m_wakeReason = "TIMER" =>
        /\ sdCard = NoSdCard /\ camera = NoCamera /\ fb = NoFrame
        /\ wifi = NoWifi
        /\ startCalls = 0 /\ s_nextPirAllowTime = allowAtWake
        /\ pc = "timer_wakeup" =>
              /\ ~(s_nextPirAllowTime > getCurrentTimeSec)
              /\ getCooldownRemaining = 0
        /\ pc = "sleeping" => armedExt1 /\ ~armedTimer

StagePcs == {"capture", "detect", "wifi_connect", "send"}

C18_EveryLifetimeEndsInPowerDown ==
    [][/\ (pc # "boot" /\ pc' = "boot") => pc = "sleeping"
       /\ pc = "sleeping" =>
             /\ pc' \in {"sleeping", "boot"}
             /\ pc' = "sleeping" => UNCHANGED vars]_vars

\* C20: the wake classification is a total function of the hardware wake
\* cause, evaluated once per process and never changed afterwards: undefined
\* gives PowerOn, the EXT1 (trigger pin) wake gives Trigger, the timer gives
\* TimerExpired, and every other cause gives Unknown.
C20_WakeReasonIsFunctionOfCause ==
    [][/\ pc' \notin {"boot", "api"} =>
             m_wakeReason' = IF wakeCause' = "UNDEFINED" THEN "POWER_ON"
                             ELSE IF wakeCause' = "EXT1" THEN "PIR_TRIGGER"
                             ELSE IF wakeCause' = "TIMER" THEN "TIMER"
                             ELSE "UNKNOWN"
       /\ (m_wakeReason # "UNSET" /\ pc' # "boot") =>
             m_wakeReason' = m_wakeReason /\ wakeCause' = wakeCause]_vars

C20_Witness ==
    /\ pc = "sleeping"
    /\ wakeCause \in OtherCauses
    /\ m_wakeReason = "UNKNOWN"

\* C21: on an Unknown wake reason the dispatcher takes no action: it goes
\* straight to enterDeepSleep, acquires no resource, runs no pipeline stage
\* (not even the cooldown re-check) and leaves allowed_after unchanged.
C21_UnknownWakeGoesToSleep ==
    m_wakeReason = "UNKNOWN" =>
        /\ pc \in EdsPcs \cup {"sleeping"}
        /\ ~recheck.done /\ path = "none"
        /\ sdCard = NoSdCard /\ camera = NoCamera /\ fb = NoFrame
        /\ wifi = NoWifi /\ result = NoResult /\ notify = "none"
        /\ startCalls = 0 /\ s_nextPirAllowTime = allowAtWake
        /\ pc = "sleeping" => (armedTimer \/ armedExt1)

C21_Witness ==
    /\ pc = "sleeping"
    /\ m_wakeReason = "UNKNOWN"
    /\ s_nextPirAllowTime > 0
    /\ armedTimer

\* the release that undoes an acquisition
ReleaseOf(event) ==
    IF event = "mount" THEN "unmount"
    ELSE IF event = "init" THEN "deinit" ELSE "returnFrame"

Reverse(seq) == [i \in 1..Len(seq) |-> seq[Len(seq) + 1 - i]]

AcquiredIn(log) ==
    SelectSeq(log, LAMBDA e : e \in {"mount", "init", "capture"})

C23_StagesInOrderAndGated ==
    [][pc' # pc =>
          /\ pc' = "mount" => pc = "pir_trigger"
          /\ pc' = "cam_init" => pc = "mount" /\ sdCard'.m_card
          /\ pc' = "warmup" =>
                pc = "cam_init" /\ sdCard'.m_card /\ camera'.m_initialized
          /\ pc' = "capture" =>
                /\ pc = "warmup"
                /\ camera'.m_initialized
                /\ warmupI' = CAMERA_WARMUP_FRAMES
                /\ validFrames' >= CAMERA_MIN_VALID_FRAMES
          /\ pc' = "detect" => pc = "capture" /\ fb'.frame # 0
          /\ pc' = "decide" => pc = "detect" /\ fb'.frame # 0
          /\ pc' = "wifi_connect" => pc = "decide"
          /\ pc' = "wifi_wait" => pc = "wifi_connect"
          /\ pc' = "send" => pc = "wifi_wait"
          /\ pc' = "start_cooldown" =>
                pc \in {"wifi_connect", "wifi_wait", "send"}
          /\ pc' = "cleanup" => pc \in {"decide", "start_cooldown"}]_vars

C23_Witness ==
    /\ pc = "cleanup"
    /\ path = "confident"
    /\ notify = "send_ok"
    /\ hwLog = << "mount", "init", "capture" >>
    /\ validFrames >= CAMERA_MIN_VALID_FRAMES

\* C24: isConnected() returns true exactly when the station is connected and
\* has an IP address; in particular it returns false after a disconnect
\* event that follows a successful connect.
C24_IsConnectedTracksStation ==
    wifi.m_initialized =>
        ((wifi.m_eventGroup /\ wifi.connectedBit) <=> net.sta)

\* C25: once disconnect() or the destructor has run, whatever connect()
\* acquired (event group, event handlers, WiFi driver) is released, for every
\* way connect() ended.
C25_DisconnectReleasesEverything ==
    (path = "confident" /\ pc \in {"cleanup", "sleeping"} \cup EdsPcs) =>
        /\ ~wifi.m_eventGroup
        /\ ~wifi.handlers
        /\ ~wifi.driver
        /\ ~wifi.m_initialized

\* C26: connect() always returns: ESP_OK only if a got-IP event was
\* delivered before the wait ended, ESP_ERR_TIMEOUT if none was, another
\* error code if a set-up step failed; a disconnect event during the wait
\* does not make it return.
C26_ConnectAlwaysReturns ==
    /\ pc # "aborted"
    /\ net.ret = "ESP_OK" => net.gotIp
    /\ net.ret = "ESP_ERR_TIMEOUT" => ~net.gotIp
    /\ net.ret = "ESP_FAIL" => ~wifi.m_initialized /\ ~net.gotIp
    /\ pc = "wifi_wait" => net.ret = "none"
    /\ pc \in {"send", "start_cooldown"} => net.ret # "none"

\* C27: sendDocument returns ESP_OK if and only if header, image and tail
\* were written in full and the HTTP status is 200; with a null data pointer
\* or a zero length it returns ESP_ERR_INVALID_ARG and creates no HTTP
\* client; after a failed open or a short write it returns an error.
C27_SendDocumentResult ==
    tg.called =>
        /\ tg.ret = "ESP_OK" <=>
              /\ tg.data /\ tg.dataLen > 0
              /\ tg.hdr = HeaderLen
              /\ tg.body = tg.dataLen
              /\ tg.tail = TailLen
              /\ tg.status = HTTP_OK
        /\ (~tg.data \/ tg.dataLen = 0) =>
              tg.ret = "ESP_ERR_INVALID_ARG" /\ ~tg.client
        /\ tg.ret \in {"ESP_OK", "ESP_FAIL", "ESP_ERR_INVALID_ARG",
                       "ESP_ERR_NO_MEM", "ESP_ERR_HTTP_CONNECT"}
        /\ tg.client => tg.cleaned

C27_Witness ==
    /\ tg.called
    /\ tg.ret = "ESP_OK"
    /\ tg.dataLen = MaxDataLen
    /\ tg.status = HTTP_OK

\* C28: the capture-and-notify pipeline runs only on a Trigger wake: after a
\* PowerOn, TimerExpired or Unknown dispatch the program is in the power-on
\* or timer handler or in enterDeepSleep, and it has mounted no card,
\* initialised no camera, captured no frame, run no detection, made no
\* network connection and called startCooldown zero times.
C28_PipelineOnlyOnTrigger ==
    m_wakeReason \in {"POWER_ON", "TIMER", "UNKNOWN"} =>
        /\ pc \in {"power_on", "timer_wakeup", "sleeping"} \cup EdsPcs
        /\ hwLog = << >>
        /\ sdCard.acq = 0 /\ camera.acq = 0 /\ fb.acq = 0
        /\ result = NoResult
        /\ wifi = NoWifi /\ net = NoNet
        /\ startCalls = 0

C28_Witness ==
    /\ pc = "sleeping"
    /\ m_wakeReason = "TIMER"
    /\ wakeCause = "TIMER"
    /\ hist.had

\* C29: capture() returns a frame if and only if the camera is initialised,
\* the sensor delivered a buffer and the buffer is not shorter than the
\* minimum frame size (exactly the minimum is accepted); a returned frame is
\* the delivered buffer, still held; a buffer rejected as too small was
\* handed back before capture returned null, so a null return holds nothing.
C29_CaptureReturnsFrameIff ==
    drv.op = "capture" =>
        /\ drv.frame # 0 <=>
              drv.init /\ drv.len # 0 /\ drv.len >= MIN_FRAME_SIZE
        /\ drv.frame # 0 => drv.frame = drv.len
                            /\ drv.gets = 1 /\ drv.returns = 0
        /\ drv.frame = 0 => drv.gets = drv.returns
        /\ (drv.init /\ drv.len # 0 /\ drv.len < MIN_FRAME_SIZE) =>
              drv.gets = 1 /\ drv.returns = 1

C29_Witness ==
    /\ drv.op = "capture"
    /\ drv.init
    /\ drv.len = MIN_FRAME_SIZE
    /\ drv.frame = MIN_FRAME_SIZE

\* a capture that rejected a too-small buffer
C29_RejectWitness ==
    /\ drv.op = "capture"
    /\ drv.init
    /\ drv.len = MIN_FRAME_SIZE - 1
    /\ drv.returns = 1

\* requests of one warmup() call whose buffer met the size criterion
GoodFrames(lens) ==
    {i \in DOMAIN lens : lens[i] # 0 /\ lens[i] > MIN_FRAME_SIZE}

\* C30: warmup() makes at most CAMERA_WARMUP_FRAMES discard-captures, hands
\* every buffer back before it asks for the next one, and returns false
\* exactly when the camera is not initialised or fewer than
\* CAMERA_MIN_VALID_FRAMES of the captures delivered a buffer longer than
\* the minimum frame size.
C30_WarmupBoundedAndBalanced ==
    drv.op = "warmup" =>
        /\ drv.calls <= CAMERA_WARMUP_FRAMES
        /\ Len(drv.log) <= 2 * CAMERA_WARMUP_FRAMES
        /\ \A k \in 1..Len(drv.log) :
              IF k % 2 = 1
                 THEN drv.log[k] = "fb_get" /\ k < Len(drv.log)
                 ELSE drv.log[k] = "fb_return"
        /\ ~drv.ret <=>
              \/ ~drv.init
              \/ Cardinality(GoodFrames(drv.lens)) < CAMERA_MIN_VALID_FRAMES

C30_Witness ==
    /\ drv.op = "warmup"
    /\ drv.init
    /\ ~drv.ret
    /\ drv.calls = CAMERA_WARMUP_FRAMES
    /\ Len(drv.log) = 2 * CAMERA_WARMUP_FRAMES

\* a warm-up that succeeded
C30_PassWitness ==
    /\ drv.op = "warmup"
    /\ drv.ret
    /\ Cardinality(GoodFrames(drv.lens)) = CAMERA_MIN_VALID_FRAMES

\* position of the first occurrence of event e in a log, 0 if there is none
PosOf(log, e) ==
    IF Count(log, e) = 0 THEN 0
    ELSE CHOOSE k \in 1..Len(log) :
            log[k] = e /\ \A j \in 1..(k - 1) : log[j] # e

\* C31: a notification is attempted only after a confident detection; the
\* send is attempted only after connect() returned ESP_OK and isConnected()
\* reported true, and comes after connect and before the teardown; every
\* connect that started the WiFi driver has been followed by exactly one
\* effective disconnect (one esp_wifi_stop) when enterDeepSleep is reached.
C31_ConnectSendDisconnect ==
    /\ (net.log # << >> \/ pc \in {"wifi_connect", "wifi_wait", "send"}) =>
          result.detected /\ result.confidence >= MIN_CONFIDENCE
    /\ pc = "send" =>
          net.ret = "ESP_OK" /\ wifi.m_eventGroup /\ wifi.connectedBit
    /\ Count(net.log, "connect") <= 1
    /\ Count(net.log, "sendDocument") <= 1
    /\ Count(net.log, "sendDocument") = 1 =>
          /\ net.ret = "ESP_OK" /\ net.gotIp
          /\ 0 < PosOf(net.log, "esp_wifi_start")
          /\ PosOf(net.log, "connect") < PosOf(net.log, "sendDocument")
          /\ PosOf(net.log, "esp_wifi_start") < PosOf(net.log, "sendDocument")
          /\ PosOf(net.log, "sendDocument") < PosOf(net.log, "unregister_wifi")
    /\ Count(net.log, "esp_wifi_stop") <= Count(net.log, "esp_wifi_start")
    /\ pc \in EdsPcs \cup {"sleeping"} =>
          /\ Count(net.log, "esp_wifi_stop")
                = Count(net.log, "esp_wifi_start")
          /\ Count(net.log, "esp_wifi_deinit")
                = Count(net.log, "esp_wifi_start")
          /\ Count(net.log, "esp_wifi_start") = 1 =>
                PosOf(net.log, "esp_wifi_start")
                   < PosOf(net.log, "esp_wifi_stop")

C31_Witness ==
    /\ pc = "sleeping"
    /\ notify = "send_ok"
    /\ net.log = << "connect", "esp_wifi_start", "sendDocument" >>
                    \o TeardownCalls

\* a connect that timed out and was torn down by the destructor
C31_TimeoutWitness ==
    /\ pc = "sleeping"
    /\ notify = "timeout"
    /\ net.log = << "connect", "esp_wifi_start" >> \o TeardownCalls

\* the control points of handlePirTrigger in program order
PipelineOrder == << "pir_trigger", "mount", "cam_init", "warmup", "capture",
                   "detect", "decide", "wifi_connect", "wifi_wait", "send",
                   "start_cooldown", "cleanup" >>

\* position of a control point in handlePirTrigger; enterDeepSleep, the
\* sleep and the abort come after all of them
StageRank(p) ==
    IF \E k \in 1..Len(PipelineOrder) : PipelineOrder[k] = p
       THEN CHOOSE k \in 1..Len(PipelineOrder) : PipelineOrder[k] = p
       ELSE IF p \in {"boot", "power_on", "timer_wakeup"} THEN 0
       ELSE Len(PipelineOrder) + 1

\* the stages that are a single call
CallStages == {"mount", "cam_init", "capture", "detect", "wifi_connect"}

\* C32: no stage is retried within one wake cycle: control only moves
\* forward through mount, camera init, warmup, capture, detect and connect,
\* a stage that has been called is left by that call (warmup after at most
\* CAMERA_WARMUP_FRAMES iterations), and the pipeline is entered again only
\* by a new process that an EXT1 (trigger) wake started.
C32_NoStageRetried ==
    [][/\ (pc' # pc /\ StageRank(pc) \in 1..Len(PipelineOrder)) =>
              StageRank(pc') > StageRank(pc)
       /\ StageRank(pc') \in 1..Len(PipelineOrder) =>
              StageRank(pc') >= StageRank(pc)
       /\ (pc \in CallStages /\ pc' = pc) =>
              UNCHANGED << hwVars, warmVars, runVars, netVars, recheck >>
       /\ (pc = "warmup" /\ pc' = pc) =>
              /\ warmupI' \in {warmupI, warmupI + 1}
              /\ warmupI' <= CAMERA_WARMUP_FRAMES
              /\ UNCHANGED << sdCard, camera, runVars, netVars >>
       /\ (pc' = "pir_trigger" /\ pc # "pir_trigger") =>
              pc = "boot" /\ wakeCause = "EXT1"
       /\ (pc' = "boot" /\ pc # "boot") =>
              pc \in {"sleeping", "aborted"}]_vars

C32_Witness ==
    /\ pc = "sleeping"
    /\ path = "capture_fail"
    /\ warmupI = CAMERA_WARMUP_FRAMES
    /\ hwLog = << "mount", "init", "deinit", "unmount" >>
    /\ armedExt1

\* C33: a detection that cannot be performed is a negative outcome: when
\* the frame is invalid or the JPEG decode fails, detect returns detected =
\* false with confidence 0, and the pipeline takes the no-detection path: no
\* failure exit, no notification attempt, no startCooldown call and
\* allowed_after unchanged, the normal release of frame, camera and card,
\* and the level wake armed unless enterDeepSleep found a cooldown running.
C33_FailedDetectionIsNegative ==
    (drv.op = "detect" /\ (drv.frame = 0 \/ ~drv.decoded)) =>
        /\ ~drv.result.detected /\ drv.result.confidence = 0
        /\ pc # "drv" =>
              /\ result = drv.result
              /\ pc \in {"decide", "cleanup", "sleeping"} \cup EdsPcs
              /\ path \in {"none", "negative"}
              /\ notify = "none" /\ net = NoNet /\ wifi = NoWifi
              /\ startCalls = 0
              /\ s_nextPirAllowTime = allowAtWake
        /\ pc \in {"sleeping"} \cup EdsPcs =>
              /\ path = "negative"
              /\ hwLog = << "mount", "init", "capture",
                            "returnFrame", "deinit", "unmount" >>
        /\ pc = "sleeping" =>
              /\ armedTimer # armedExt1
              /\ ~edsCooling => armedExt1

C33_Witness ==
    /\ pc = "sleeping"
    /\ drv.op = "detect"
    /\ ~drv.decoded
    /\ armedExt1
    /\ path = "negative"

\* detect called on a null or empty frame
C33_InvalidFrameWitness ==
    /\ pc = "drv"
    /\ drv.op = "detect"
    /\ drv.frame = 0
    /\ drv.decoded

\* C34: in every reachable state, over any number of wake cycles,
\* allowed_after >= 0, and every isInCooldown() call (the re-check of
\* handlePirTrigger, the test of enterDeepSleep) reported cooling exactly
\* when the clock value it read was below allowed_after; the device acts on
\* that report: a cooling re-check aborts the pipeline, and power-down arms
\* the timer wake exactly when enterDeepSleep saw a cooldown.
C34_CoolingIffNowBelowAllowedAfter ==
    /\ s_nextPirAllowTime >= 0
    /\ allowAtWake >= 0
    /\ recheck.done =>
          /\ recheck.cooling <=> (recheck.now < allowAtWake)
          /\ recheck.cooling <=> (path = "recheck")
    /\ pc \in {"eds_timer", "eds_ext1", "eds_start", "sleeping"} =>
          /\ edsCooling <=> (edsNow < s_nextPirAllowTime)
          /\ edsCooling <=> (pc = "eds_timer" \/ armedTimer)
          /\ ~edsCooling <=> (pc = "eds_ext1" \/ armedExt1)

\* a second wake cycle in which both calls were made with a timestamp stored:
\* not cooling at the re-check, cooling in enterDeepSleep
C34_Witness ==
    /\ pc = "sleeping"
    /\ allowAtWake > 0
    /\ recheck.done /\ ~recheck.cooling
    /\ recheck.now = allowAtWake
    /\ edsCooling
    /\ edsNow < s_nextPirAllowTime

\* C35: whenever the timer wake is armed its duration is strictly positive,
\* however the clock advances between the two reads of enterDeepSleep.
C35_TimerDurationPositive ==
    armedTimer => sleepDuration > 0

\* C36: a Trigger (EXT1) wake happens only after a power-down that armed
\* the level wake, the device not cooling at that moment; the process it
\* starts finds isInCooldown() false at the re-check of handlePirTrigger,
\* whatever allowed_after holds, and so does not ignore the trigger.
C36_ArmedDeviceHonoursTrigger ==
    (m_wakeReason = "PIR_TRIGGER" /\ recheck.done) =>
        ~recheck.cooling /\ path # "recheck"

\* the control points from the return of capture() to the cleanup, at which
\* detection and the notification send read the frame buffer
FrameInUsePcs == {"detect", "decide", "wifi_connect", "wifi_wait", "send",
                  "start_cooldown", "cleanup", "aborted"}

C38_IdempotentDrivers ==
    /\ drv.op \in {"mount", "init"} /\ drv.was =>
          drv.ok /\ drv.acquired = 0 /\ drv.released = 0
    /\ drv.op \in {"unmount", "shutdown", "disconnect"} /\ ~drv.was =>
          drv.released = 0
    /\ drv.op \in {"unmount", "shutdown", "disconnect"} /\ drv.was =>
          drv.released = 1
    /\ sdCard.rel <= sdCard.acq
    /\ camera.rel <= camera.acq
    /\ sdCard.m_card <=> (sdCard.acq = sdCard.rel + 1)
    /\ camera.m_initialized <=> (camera.acq = camera.rel + 1)
    /\ Count(net.log, "esp_wifi_stop") <= Count(net.log, "esp_wifi_start")
    /\ Count(net.log, "esp_wifi_deinit") <= Count(net.log, "esp_wifi_start")
    /\ Count(net.log, "vEventGroupDelete")
          <= Count(net.log, "esp_wifi_start")
    /\ wifi.m_initialized <=>
          (Count(net.log, "esp_wifi_start")
              = Count(net.log, "esp_wifi_stop") + 1)

\* a second disconnect() after an effective one
C38_Witness ==
    /\ pc = "drv"
    /\ drv.op = "disconnect" /\ ~drv.was
    /\ Count(net.log, "esp_wifi_start") = 1
    /\ Count(net.log, "esp_wifi_stop") = 1
    /\ sdCard.acq = 1 /\ sdCard.rel = 1
    /\ camera.m_initialized

\* the calls eventHandler makes
HandlerCalls == {"esp_wifi_connect", "xEventGroupSetBits"}

\* C39: while the WiFi handlers are registered every station-disconnected
\* event is answered by one esp_wifi_connect() call; in disconnect() both
\* handlers are unregistered before esp_wifi_stop and before
\* vEventGroupDelete, so that an event delivered at any point of the
\* teardown causes no reconnect attempt after the WIFI_EVENT handler is
\* unregistered, no event-group access after the IP_EVENT handler is
\* unregistered, and neither once the driver is being stopped.
C39_ReconnectAndTeardownOrder ==
    /\ net.reconnects = net.events
    /\ Count(net.log, "esp_wifi_stop") <= 1
    /\ Count(net.log, "esp_wifi_stop") = 1 =>
          LET stop == PosOf(net.log, "esp_wifi_stop")
              unregWifi == PosOf(net.log, "unregister_wifi")
              unregIp == PosOf(net.log, "unregister_ip")
          IN  /\ 0 < unregWifi /\ unregWifi < unregIp /\ unregIp < stop
              /\ stop < PosOf(net.log, "esp_wifi_deinit")
              /\ PosOf(net.log, "esp_wifi_deinit")
                    < PosOf(net.log, "vEventGroupDelete")
              /\ \A k \in 1..Len(net.log) :
                    /\ net.log[k] = "esp_wifi_connect" => k < unregWifi
                    /\ net.log[k] = "xEventGroupSetBits" => k < unregIp
                    /\ net.log[k] \in HandlerCalls => k < stop
              /\ ~wifi.handlers /\ ~wifi.ipHandler /\ ~wifi.m_eventGroup

\* two disconnect events answered during the wait, and one more delivered
\* as disconnect() begins
C39_Witness ==
    /\ pc = "sleeping"
    /\ net.events = MaxWifiEvents
    /\ net.reconnects = MaxWifiEvents
    /\ Count(net.log, "esp_wifi_connect") = 1
    /\ Count(net.log, "esp_wifi_stop") = 1

\* a got-IP event delivered between the two unregister calls
C39_LateGotIpWitness ==
    /\ pc = "sleeping"
    /\ Count(net.log, "xEventGroupSetBits") = 1
    /\ PosOf(net.log, "unregister_wifi")
          < PosOf(net.log, "xEventGroupSetBits")

====
